---- MODULE Spec2Model ----
(***************************************************************************)
(* f2bs (src/main.rs): a terminal dashboard over fail2ban-client.          *)
(*                                                                         *)
(* Text is a sequence of one-character strings (<<":", ":", "1">> is       *)
(* "::1"), so that trimming, lower-casing, substring search and the byte   *)
(* order of Rust's String::cmp are computed, not assumed.  Option<T> is a  *)
(* sequence of length 0 (None) or 1 (Some).  List indices are 0-based as   *)
(* in the source; element i of a Vec v is v[i + 1].                        *)
(***************************************************************************)
EXTENDS Integers, Sequences, FiniteSets, TLC

VARIABLES state, pc, log

vars == <<state, pc, log>>

(***************************************************************************)
(* Bounds of the model.                                                    *)
(***************************************************************************)
\* longest text the user types into the filter or the ban dialog
MaxTyped == 1
\* largest reading of the wall clock (Utc::now), in seconds
MaxNow == 1

\* full batches in the largest jail of the bulk checks
MaxChunks == 2

\* longest text the user types into the ban dialog in the checks of that dialog
MaxBanTyped == 3

\* longest filter the user types in the checks of the view
MaxQuery == 2

(***************************************************************************)
(* Option, characters and strings.                                         *)
(***************************************************************************)
None == <<>>

Some(x) == <<x>>

IsSome(o) == Len(o) = 1

Unwrap(o) == o[1]

UnwrapOr(o, d) == IF Len(o) = 1 THEN o[1] ELSE d

\* the characters of the model, in ASCII order
Chars ==
    << " ", "+", ",", "-", ".", "/", "0", "1", "2", "3", "4", "5", "6", "7", "8", "9",
       ":", ";", "A", "B", "C", "D", "E", "F", "N", "Q", "R", "S", "T", "U",
       "X", "Y", "a", "b", "c", "d", "e", "f", "g", "h", "i", "j", "k", "m",
       "n", "q", "r", "s", "t", "u", "w", "x", "y" >>

CharSet == {Chars[i] : i \in 1..Len(Chars)}

\* position of a character in the byte order
CharCode == [c \in CharSet |-> CHOOSE i \in 1..Len(Chars) : Chars[i] = c]

Digits == {"0", "1", "2", "3", "4", "5", "6", "7", "8", "9"}

DigitVal == [c \in Digits |-> CharCode[c] - CharCode["0"]]

UpperToLower ==
    [c \in {"A", "B", "C", "D", "E", "F", "N", "Q", "R", "S", "T", "U", "X", "Y"} |->
        CASE c = "A" -> "a" [] c = "B" -> "b" [] c = "C" -> "c" [] c = "D" -> "d"
          [] c = "E" -> "e" [] c = "F" -> "f" [] c = "N" -> "n" [] c = "Q" -> "q"
          [] c = "R" -> "r" [] c = "S" -> "s" [] c = "T" -> "t" [] c = "U" -> "u"
          [] c = "X" -> "x" [] c = "Y" -> "y"]

\* char::to_lowercase
LowerChar(c) == IF c \in DOMAIN UpperToLower THEN UpperToLower[c] ELSE c

\* str::to_lowercase
to_lowercase(s) == [i \in 1..Len(s) |-> LowerChar(s[i])]

IsSpace(c) == c = " "

RECURSIVE TrimStart(_)
TrimStart(s) == IF s # <<>> /\ IsSpace(s[1]) THEN TrimStart(Tail(s)) ELSE s

RECURSIVE TrimEnd(_)
TrimEnd(s) ==
    IF s # <<>> /\ IsSpace(s[Len(s)]) THEN TrimEnd(SubSeq(s, 1, Len(s) - 1)) ELSE s

\* str::trim
trim(s) == TrimEnd(TrimStart(s))

\* str::contains: sub occurs in s as a contiguous run
contains(s, sub) ==
    \E i \in 0..(Len(s) - Len(sub)) : SubSeq(s, i + 1, i + Len(sub)) = sub

\* String::cmp(a, b) = Less: byte-wise lexicographic order
RECURSIVE StrLess(_, _)
StrLess(a, b) ==
    IF b = <<>> THEN FALSE
    ELSE IF a = <<>> THEN TRUE
    ELSE IF a[1] # b[1] THEN CharCode[a[1]] < CharCode[b[1]]
    ELSE StrLess(Tail(a), Tail(b))

\* String::pop
pop(s) == IF s = <<>> THEN s ELSE SubSeq(s, 1, Len(s) - 1)

AllDigits(s) == \A i \in 1..Len(s) : s[i] \in Digits

RECURSIVE DecimalValue(_)
DecimalValue(s) ==
    IF s = <<>> THEN 0 ELSE 10 * DecimalValue(SubSeq(s, 1, Len(s) - 1)) + DigitVal[s[Len(s)]]

\* str::parse::<u32>() / ::<u64>() of an unsigned decimal text.  The digit runs
\* these parsers meet in the model are far shorter than the 10 digits of
\* u32::MAX, so their range check never fails here.
ParseUnsigned(s) ==
    IF s # <<>> /\ AllDigits(s) THEN Some(DecimalValue(s)) ELSE None

(***************************************************************************)
(* The 64-bit integers.  TLC's integers end at 2^31 - 1, so i64 and u64    *)
(* are modelled with IntBits bits instead of 64, with the same rules:      *)
(* two's complement, u64::MAX = 2 * i64::MAX + 1, `as` casts that keep the *)
(* bits, saturating and wrapping arithmetic.  No operator below computes a *)
(* value outside TLC's range on the way.                                   *)
(***************************************************************************)
IntBits == 31

I64Max == 2 ^ (IntBits - 1) - 1

U64Max == I64Max + I64Max + 1

\* u as i64, for u of type u64
AsI64(u) == IF u > I64Max THEN (u - U64Max) - 1 ELSE u

\* a + b does not fit u64
AddOverflows(a, b) == a > U64Max - b

\* u64::wrapping_add
WrappingAdd(a, b) == IF a > U64Max - b THEN (a - (U64Max - b)) - 1 ELSE a + b

\* a * k does not fit u64
MulOverflows(a, k) == k # 0 /\ a > U64Max \div k

\* u64::wrapping_mul by doubling: acc + a * k modulo 2^IntBits
RECURSIVE MulAcc(_, _, _)
MulAcc(a, k, acc) ==
    IF k = 0 THEN acc
    ELSE MulAcc(WrappingAdd(a, a), k \div 2,
                IF k % 2 = 1 THEN WrappingAdd(acc, a) ELSE acc)

WrappingMul(a, k) == MulAcc(a, k, 0)

\* str::parse of an all-digit text into an integer type with maximum max: None
\* when the text is empty or the value is out of range
RECURSIVE ParseBounded(_, _)
ParseBounded(s, max) ==
    IF s = <<>> THEN None
    ELSE LET d == DigitVal[s[Len(s)]]
             p == IF Len(s) = 1 THEN Some(0) ELSE ParseBounded(SubSeq(s, 1, Len(s) - 1), max)
         IN  IF p = None THEN None
             ELSE IF Unwrap(p) > (max - d) \div 10 THEN None
             ELSE Some(10 * Unwrap(p) + d)

\* str::parse::<i64>() of an all-digit text
ParseI64(s) == ParseBounded(s, I64Max)

\* the pieces of s between occurrences of the character sep (str::split)
RECURSIVE Split(_, _)
Split(s, sep) ==
    IF \A i \in 1..Len(s) : s[i] # sep THEN <<s>>
    ELSE LET k == CHOOSE i \in 1..Len(s) : s[i] = sep /\ \A j \in 1..(i - 1) : s[j] # sep
         IN  <<SubSeq(s, 1, k - 1)>> \o Split(SubSeq(s, k + 1, Len(s)), sep)

\* [String].join(" ")
RECURSIVE Join(_)
Join(tokens) ==
    IF tokens = <<>> THEN <<>>
    ELSE IF Len(tokens) = 1 THEN tokens[1]
    ELSE tokens[1] \o <<" ">> \o Join(Tail(tokens))

HexDigits == Digits \cup {"a", "b", "c", "d", "e", "f", "A", "B", "C", "D", "E", "F"}

IsHexGroup(g) == Len(g) \in 1..4 /\ \A i \in 1..Len(g) : g[i] \in HexDigits

\* a decimal octet of an IPv4 literal: 0..255 without a leading zero
IsOctet(g) ==
    /\ Len(g) \in 1..3
    /\ AllDigits(g)
    /\ (Len(g) > 1 => g[1] # "0")
    /\ DecimalValue(g) <= 255

IsIpv4(s) ==
    LET g == Split(s, ".") IN Len(g) = 4 /\ \A i \in 1..4 : IsOctet(g[i])

\* an IPv6 literal written with hexadecimal groups: eight groups, or fewer with
\* one "::" (an embedded dotted quad needs more characters than the model types)
IsIpv6(s) ==
    LET g == Split(s, ":")
        n == Len(g)
        empty == {i \in 1..n : g[i] = <<>>}
        full == {i \in 1..n : g[i] # <<>>}
    IN  /\ \A i \in full : IsHexGroup(g[i])
        /\ \/ n = 8 /\ empty = {}
           \/ n = 3 /\ empty = {1, 2, 3}
           \/ n \in 3..9 /\ empty = {1, 2} /\ Cardinality(full) <= 7
           \/ n \in 3..9 /\ empty = {n - 1, n} /\ Cardinality(full) <= 7
           \/ n \in 3..8 /\ Cardinality(empty) = 1 /\ empty \cap {1, n} = {}

\* token.parse::<IpAddr>().is_ok()
IsIpAddr(s) == IsIpv4(s) \/ IsIpv6(s)

(***************************************************************************)
(* Stable sorting (slice::sort_by / sort_by_key are stable).               *)
(***************************************************************************)
\* SortBy(v, less) is v sorted, where less[i][j] tells whether v[i] compares
\* smaller than v[j].  The comparators of the program are strict weak orders,
\* for which the stable sort puts element i behind every earlier element that is
\* not greater and behind every later element that is smaller.  (SubSeq over the
\* whole length makes TLC compute a sequence once instead of at every use.)
SortBy(v, less) ==
    LET n == Len(v)
        s == SubSeq(v, 1, n)
        place == SubSeq([i \in 1..n |->
                            1 + Cardinality({j \in 1..(i - 1) : ~less[i][j]})
                              + Cardinality({j \in (i + 1)..n : less[j][i]})],
                        1, n)
    IN  [p \in 1..n |-> s[CHOOSE i \in 1..n : place[i] = p]]

(***************************************************************************)
(* The external tool.  One run of fail2ban-client is a result              *)
(* [ok, out, err]: ok with its stdout, or a failure with its message.      *)
(* Stdout is modelled after tokenisation:                                  *)
(*   status            [jail_list]  None when no line holds "Jail list:",  *)
(*                     else the comma-separated pieces of that line's tail *)
(*   status <jail>     [currently, total, banned]  the text after each     *)
(*                     marker (None when absent); banned is the sequence   *)
(*                     of whitespace/comma separated tokens after          *)
(*                     "Banned IP list:"                                   *)
(*   get <jail> <key>  the text printed                                    *)
(*   get <jail> banip --with-time   the whitespace-separated tokens        *)
(* A world is what the tool answers to the queries of one fetch:           *)
(*   [status |-> result, jail |-> [name |-> [status, bantime, findtime,    *)
(*    maxretry, banip |-> result]]].                                       *)
(***************************************************************************)
Ok(out) == [ok |-> TRUE, out |-> out, err |-> ""]

Err(msg) == [ok |-> FALSE, out |-> <<>>, err |-> msg]

\* One run of the tool as the log records it.  The arguments are
\*   status                      op "status", jail None
\*   status <jail>               op "status", jail Some(name)
\*   get <jail> <what>           op "get", what "bantime" | "findtime" | "maxretry"
\*                               | "banip --with-time"
\*   set <jail> <what> <ips...>  op "set", what "unbanip" | "banip"
\* ok tells whether the run succeeded and err is the message of a failed run.
Cmd(op, jail, what, ips, res) ==
    [op |-> op, jail |-> jail, what |-> what, ips |-> ips, ok |-> res.ok, err |-> res.err]

NotAvailable == [raw |-> <<"n", "/", "a">>, seconds |-> None]

parse_jail_list(out) ==
    IF out.jail_list = None THEN <<>>
    ELSE SelectSeq([i \in 1..Len(Unwrap(out.jail_list)) |-> trim(Unwrap(out.jail_list)[i])],
                   LAMBDA j : j # <<>>)

\* the valid addresses among the tokens, each once, in first-seen order
extract_ips(tokens) ==
    LET kept == SelectSeq([i \in 1..Len(tokens) |-> i],
                          LAMBDA i : /\ IsIpAddr(tokens[i])
                                     /\ \A j \in 1..(i - 1) : tokens[j] # tokens[i])
    IN  [k \in 1..Len(kept) |-> tokens[kept[k]]]

parse_banned_ips(out) ==
    IF out.banned = None THEN <<>> ELSE extract_ips(Unwrap(out.banned))

parse_status_counts(out) ==
    [currently_banned |-> IF out.currently = None THEN None
                          ELSE ParseUnsigned(trim(Unwrap(out.currently))),
     total_banned |-> IF out.total = None THEN None
                      ELSE ParseUnsigned(trim(Unwrap(out.total)))]

parse_time_value(out) ==
    IF trim(out) = <<>> THEN NotAvailable
    ELSE [raw |-> trim(out), seconds |-> ParseUnsigned(trim(out))]

parse_maxretry(out) == ParseUnsigned(trim(out))

\* i64::saturating_add
saturating_add(a, b) ==
    IF a + b > I64Max THEN I64Max
    ELSE IF a + b < (0 - I64Max) - 1 THEN (0 - I64Max) - 1
    ELSE a + b

resolve_end_epoch(epoch, bantime_secs, now) ==
    IF epoch >= now THEN epoch
    ELSE IF IsSome(bantime_secs) THEN saturating_add(epoch, AsI64(Unwrap(bantime_secs)))
    ELSE epoch

RECURSIVE TrimMatches(_, _)
TrimMatches(s, set) ==
    IF s # <<>> /\ s[1] \in set THEN TrimMatches(Tail(s), set)
    ELSE IF s # <<>> /\ s[Len(s)] \in set THEN TrimMatches(SubSeq(s, 1, Len(s) - 1), set)
    ELSE s

\* Every date format the function tries needs "-" between year, month and day;
\* the texts of the model hold no date, so a text that is not all digits ends at
\* the final None.
parse_time_to_epoch(time_str, bantime_secs, now) ==
    LET cleaned == TrimMatches(trim(time_str), {",", ";"})
    IN  IF cleaned = <<>> THEN None
        ELSE IF AllDigits(cleaned)
             THEN IF ParseI64(cleaned) = None THEN None
                  ELSE Some(resolve_end_epoch(Unwrap(ParseI64(cleaned)), bantime_secs, now))
        ELSE None

IpEntry(ip, time_tokens, bantime_secs, now) ==
    [ip |-> ip,
     end_epoch |-> parse_time_to_epoch(Join(time_tokens), bantime_secs, now),
     time_raw |-> IF Join(time_tokens) = <<>> THEN None ELSE Some(Join(time_tokens))]

\* parse_banip_with_time: the loop pushes one entry for every token that is an
\* address, when it meets the next address or the end of the output; the entry
\* has the tokens between the two as its time.  Tokens before the first address
\* are skipped.
parse_banip_with_time(tokens, bantime_secs, now) ==
    LET starts == SelectSeq([i \in 1..Len(tokens) |-> i], LAMBDA i : IsIpAddr(tokens[i]))
        Last(k) == IF k < Len(starts) THEN starts[k + 1] - 1 ELSE Len(tokens)
    IN  [k \in 1..Len(starts) |->
            IpEntry(tokens[starts[k]], SubSeq(tokens, starts[k] + 1, Last(k)),
                    bantime_secs, now)]

ips_from_status(out) ==
    [i \in 1..Len(parse_banned_ips(out)) |->
        [ip |-> parse_banned_ips(out)[i], end_epoch |-> None, time_raw |-> None]]

\* JailLess comparing the names only
JailLess_by_name(a, b) == StrLess(a.name, b.name)

\* b.ips.len().cmp(&a.ips.len()).then_with(|| a.name.cmp(&b.name)) = Less
JailLess(a, b) ==
    \/ Len(a.ips) > Len(b.ips)
    \/ Len(a.ips) = Len(b.ips) /\ StrLess(a.name, b.name)

\* JailStatus leaving the ban list empty when `get <jail> banip --with-time` fails
JailStatus_without_fallback(name, t, now) ==
    LET bantime == IF t.bantime.ok THEN parse_time_value(t.bantime.out) ELSE NotAvailable
    IN  [name |-> name,
         ips |-> IF t.banip.ok
                 THEN parse_banip_with_time(t.banip.out, bantime.seconds, now)
                 ELSE <<>>,
         bantime |-> bantime,
         findtime |-> IF t.findtime.ok THEN parse_time_value(t.findtime.out)
                      ELSE NotAvailable,
         maxretry |-> IF t.maxretry.ok THEN parse_maxretry(t.maxretry.out) ELSE None,
         currently_banned |-> parse_status_counts(t.status.out).currently_banned,
         total_banned |-> parse_status_counts(t.status.out).total_banned]

\* the body of the loop of fetch_status for one jail whose status call succeeded
JailStatus(name, t, now) ==
    LET bantime == IF t.bantime.ok THEN parse_time_value(t.bantime.out) ELSE NotAvailable
    IN  [name |-> name,
         ips |-> IF t.banip.ok
                 THEN parse_banip_with_time(t.banip.out, bantime.seconds, now)
                 ELSE ips_from_status(t.status.out),
         bantime |-> bantime,
         findtime |-> IF t.findtime.ok THEN parse_time_value(t.findtime.out)
                      ELSE NotAvailable,
         maxretry |-> IF t.maxretry.ok THEN parse_maxretry(t.maxretry.out) ELSE None,
         currently_banned |-> parse_status_counts(t.status.out).currently_banned,
         total_banned |-> parse_status_counts(t.status.out).total_banned]

\* JailCmds asking for the ban list before maxretry
JailCmds_banip_early(name, t) ==
    << Cmd("status", Some(name), "", <<>>, t.status),
       Cmd("get", Some(name), "bantime", <<>>, t.bantime),
       Cmd("get", Some(name), "findtime", <<>>, t.findtime),
       Cmd("get", Some(name), "banip --with-time", <<>>, t.banip),
       Cmd("get", Some(name), "maxretry", <<>>, t.maxretry) >>

JailCmds(name, t) ==
    << Cmd("status", Some(name), "", <<>>, t.status),
       Cmd("get", Some(name), "bantime", <<>>, t.bantime),
       Cmd("get", Some(name), "findtime", <<>>, t.findtime),
       Cmd("get", Some(name), "maxretry", <<>>, t.maxretry),
       Cmd("get", Some(name), "banip --with-time", <<>>, t.banip) >>

\* FetchJails leaving out a jail whose status command fails and going on
RECURSIVE FetchJails_skipping_failed(_, _, _)
FetchJails_skipping_failed(names, w, now) ==
    IF names = <<>> THEN [ok |-> TRUE, results |-> <<>>, err |-> "", cmds |-> <<>>]
    ELSE LET prev == FetchJails_skipping_failed(SubSeq(names, 1, Len(names) - 1), w, now)
             name == names[Len(names)]
             t == w.jail[name]
         IN  IF ~t.status.ok
             THEN [prev EXCEPT
                      !.cmds = Append(prev.cmds, Cmd("status", Some(name), "", <<>>, t.status))]
             ELSE [ok |-> TRUE,
                   results |-> Append(prev.results, JailStatus(name, t, now)),
                   err |-> "",
                   cmds |-> prev.cmds \o JailCmds(name, t)]

\* the loop of fetch_status over the jails discovered: [ok, results, err, cmds]
RECURSIVE FetchJails(_, _, _)
FetchJails(names, w, now) ==
    IF names = <<>> THEN [ok |-> TRUE, results |-> <<>>, err |-> "", cmds |-> <<>>]
    ELSE LET prev == FetchJails(SubSeq(names, 1, Len(names) - 1), w, now)
             name == names[Len(names)]
             t == w.jail[name]
         IN  IF ~prev.ok THEN prev
             ELSE IF ~t.status.ok
             THEN [ok |-> FALSE, results |-> <<>>, err |-> t.status.err,
                   cmds |-> Append(prev.cmds, Cmd("status", Some(name), "", <<>>, t.status))]
             ELSE [ok |-> TRUE,
                   results |-> Append(prev.results, JailStatus(name, t, now)),
                   err |-> "",
                   cmds |-> prev.cmds \o JailCmds(name, t)]

\* fetch_status() against world w with the clock reading now:
\* [ok, jails, err, cmds], jails being the Ok value and err the Err message
fetch_status(w, now) ==
    IF ~w.status.ok
    THEN [ok |-> FALSE, jails |-> <<>>, err |-> w.status.err,
          cmds |-> <<Cmd("status", None, "", <<>>, w.status)>>]
    ELSE LET f == FetchJails(parse_jail_list(w.status.out), w, now)
         IN  [ok |-> f.ok,
              jails |-> IF f.ok
                        THEN SortBy(f.results,
                                    [i \in 1..Len(f.results) |->
                                        [j \in 1..Len(f.results) |->
                                            JailLess(f.results[i], f.results[j])]])
                        ELSE <<>>,
              err |-> f.err,
              cmds |-> <<Cmd("status", None, "", <<>>, w.status)>> \o f.cmds]

(***************************************************************************)
(* UiState and the view of the selected jail.                              *)
(***************************************************************************)
\* refresh_interval, in seconds
RefreshInterval == 5

\* jail_status.ips.chunks(50)
ChunkSize == 50

\* a status line or a dialog error: the format string and what it is filled with
Status(msg, jail, ip, count, err) ==
    [msg |-> msg, jail |-> jail, ip |-> ip, count |-> count, err |-> err]

Msg(msg) == Status(msg, <<>>, <<>>, None, "")

UnbanIpModal(jail, ip) ==
    [kind |-> "UnbanIp", jail |-> jail, ip |-> ip, step |-> 0, input |-> <<>>,
     error |-> None]

UnbanAllModal(jail, step) ==
    [kind |-> "UnbanAll", jail |-> jail, ip |-> <<>>, step |-> step, input |-> <<>>,
     error |-> None]

BanIpModal(jail, input, error) ==
    [kind |-> "BanIp", jail |-> jail, ip |-> <<>>, step |-> 0, input |-> input,
     error |-> error]

\* UiState::new().  last_refresh is kept as the time elapsed since that instant
\* (Instant::elapsed), in seconds, which stops counting at refresh_interval:
\* the program only compares it with refresh_interval.
UiState_new ==
    [jails |-> <<>>,
     jail_state |-> None,
     ip_state |-> None,
     focus |-> "Jails",
     status |-> Msg(""),
     modal |-> None,
     search_query |-> <<>>,
     search_mode |-> FALSE,
     sort_mode |-> "Ip",
     autorefresh |-> FALSE,
     last_refresh |-> 0,
     jail_rect |-> None,
     ip_rect |-> None,
     modal_yes_rect |-> None,
     modal_no_rect |-> None]

selected_jail_index(st) == UnwrapOr(st.jail_state, 0)

selected_ip_index(st) == UnwrapOr(st.ip_state, 0)

\* Vec::get / slice::get with a 0-based index
Get(v, i) == IF i < Len(v) THEN Some(v[i + 1]) ELSE None

selected_jail(st) == Get(st.jails, selected_jail_index(st))

selected_ip(st, view) == Get(view, selected_ip_index(st))

remaining_seconds(end_epoch, now) ==
    IF end_epoch = None THEN None
    ELSE IF Unwrap(end_epoch) <= now THEN Some(0)
    ELSE Some(Unwrap(end_epoch) - now)

\* a.ip.cmp(&b.ip) = Less
IpLess(a, b) == StrLess(a.ip, b.ip)

\* KeyLess putting the entries without a remaining time first
KeyLess_unknown_first(ra, rb) ==
    IF rb = None THEN FALSE ELSE IF ra = None THEN TRUE ELSE Unwrap(ra) < Unwrap(rb)

\* key(a) < key(b) for the key remaining_seconds(..).unwrap_or(u64::MAX)
KeyLess(ra, rb) ==
    IF ra = None THEN FALSE ELSE IF rb = None THEN TRUE ELSE Unwrap(ra) < Unwrap(rb)

\* filtered_ips comparing the address as stored with the lower-cased query
filtered_ips_case_sensitive(st, jail) ==
    LET query == to_lowercase(trim(st.search_query))
    IN  SelectSeq(jail.ips, LAMBDA entry : query = <<>> \/ contains(entry.ip, query))

\* the entries of the jail that pass the filter, in stored order: the view of
\* current_ip_view before it is sorted
filtered_ips(st, jail) ==
    LET query == to_lowercase(trim(st.search_query))
    IN  SelectSeq(jail.ips,
                  LAMBDA entry : query = <<>> \/ contains(to_lowercase(entry.ip), query))

current_ip_view(st, jail, now) ==
    LET view == filtered_ips(st, jail)
        TimeKey(entry) == remaining_seconds(entry.end_epoch, now)
    IN  SortBy(view,
               [i \in 1..Len(view) |->
                   [j \in 1..Len(view) |->
                       IF st.sort_mode = "Ip" THEN IpLess(view[i], view[j])
                       ELSE KeyLess(TimeKey(view[i]), TimeKey(view[j]))]])

Clamp(v, lo, hi) == IF v < lo THEN lo ELSE IF v > hi THEN hi ELSE v

\* refresh_result dropping the snapshot when the fetch fails
refresh_result_clearing(st, f) ==
    IF f.ok
    THEN [st EXCEPT !.jails = f.jails,
                    !.jail_state = IF f.jails = <<>> THEN None ELSE Some(0),
                    !.ip_state = IF f.jails = <<>> THEN None ELSE Some(0),
                    !.status = IF f.jails = <<>>
                               THEN Msg("No jails reported by fail2ban-client")
                               ELSE Msg("Refreshed"),
                    !.last_refresh = 0]
    ELSE [st EXCEPT !.jails = <<>>, !.jail_state = None, !.ip_state = None,
                    !.status = Status("Refresh failed: {err}", <<>>, <<>>, None, f.err)]

\* refresh_result starting the interval anew after a failed fetch too
refresh_result_restarting_timer(st, f) ==
    IF f.ok
    THEN IF f.jails = <<>>
         THEN [st EXCEPT !.jails = f.jails, !.jail_state = None, !.ip_state = None,
                         !.status = Msg("No jails reported by fail2ban-client"),
                         !.last_refresh = 0]
         ELSE [st EXCEPT !.jails = f.jails, !.jail_state = Some(0), !.ip_state = Some(0),
                         !.status = Msg("Refreshed"),
                         !.last_refresh = 0]
    ELSE [st EXCEPT !.status = Status("Refresh failed: {err}", <<>>, <<>>, None, f.err),
                    !.last_refresh = 0]

\* UiState::refresh after fetch_status() returned f
refresh_result(st, f) ==
    IF f.ok
    THEN IF f.jails = <<>>
         THEN [st EXCEPT !.jails = f.jails, !.jail_state = None, !.ip_state = None,
                         !.status = Msg("No jails reported by fail2ban-client"),
                         !.last_refresh = 0]
         ELSE [st EXCEPT !.jails = f.jails, !.jail_state = Some(0), !.ip_state = Some(0),
                         !.status = Msg("Refreshed"),
                         !.last_refresh = 0]
    ELSE [st EXCEPT !.status = Status("Refresh failed: {err}", <<>>, <<>>, None, f.err)]

\* An outcome of a handler: the state it leaves, the commands it ran, and whether
\* it asks the loop to stop.
Outcome(st, cmds, quit) == [st |-> st, log |-> cmds, quit |-> quit]

\* UiState::refresh: one outcome per result fetch_status() may return when the
\* clock reads now (tool.fetch[now], the results over the worlds of the tool)
refresh(st, tool, now) ==
    {Outcome(refresh_result(st, f), f.cmds, FALSE) : f \in tool.fetch[now]}

\* a handler that ran the commands `cmds` and then refreshed
ThenRefresh(st, cmds, tool, now) ==
    {Outcome(r.st, cmds \o r.log, FALSE) : r \in refresh(st, tool, now)}

\* move_jail without the upper end of the clamp
move_jail_unclamped(st, delta) ==
    IF st.jails = <<>> THEN st
    ELSE [st EXCEPT !.jail_state =
                        Some(IF UnwrapOr(st.jail_state, 0) + delta < 0 THEN 0
                             ELSE UnwrapOr(st.jail_state, 0) + delta),
                    !.ip_state = Some(0)]

move_jail(st, delta) ==
    IF st.jails = <<>> THEN st
    ELSE [st EXCEPT !.jail_state =
                        Some(Clamp(UnwrapOr(st.jail_state, 0) + delta, 0, Len(st.jails) - 1)),
                    !.ip_state = Some(0)]

move_ip(st, delta, now) ==
    IF selected_jail(st) = None THEN st
    ELSE LET view == current_ip_view(st, Unwrap(selected_jail(st)), now)
         IN  IF view = <<>> THEN st
             ELSE [st EXCEPT !.ip_state =
                                 Some(Clamp(UnwrapOr(st.ip_state, 0) + delta, 0, Len(view) - 1))]

(***************************************************************************)
(* Mutation commands.                                                      *)
(***************************************************************************)
\* Chunks keeping only the pieces of full size
Chunks_whole_only(v, size) ==
    [b \in 1..(Len(v) \div size) |-> SubSeq(v, (b - 1) * size + 1, b * size)]

\* slice::chunks(size): consecutive pieces of `size` elements, the last one shorter
Chunks(v, size) ==
    [b \in 1..((Len(v) + size - 1) \div size) |->
        SubSeq(v, (b - 1) * size + 1, IF b * size < Len(v) THEN b * size ELSE Len(v))]

Ips(entries) == [i \in 1..Len(entries) |-> entries[i].ip]

RECURSIVE SumLen(_)
SumLen(chunks) ==
    IF chunks = <<>> THEN 0 ELSE Len(chunks[1]) + SumLen(Tail(chunks))

\* unban_all_in_jail running the remaining chunks after a command has failed
unban_all_in_jail_continuing(st, jail, tool) ==
    LET found == {i \in 1..Len(st.jails) : st.jails[i].name = jail}
    IN  IF found = {}
        THEN {[ok |-> FALSE, count |-> 0, err |-> "jail not found", total |-> 0,
               cmds |-> <<>>]}
        ELSE LET jail_status == st.jails[CHOOSE i \in found : \A j \in found : i <= j]
                 chunks == Chunks(jail_status.ips, ChunkSize)
                 Run(b, res) == Cmd("set", Some(jail), "unbanip", Ips(chunks[b]), res)
             IN  IF jail_status.ips = <<>>
                 THEN {[ok |-> TRUE, count |-> 0, err |-> "", total |-> 0, cmds |-> <<>>]}
                 ELSE {[ok |-> TRUE, count |-> SumLen(chunks), err |-> "",
                        total |-> SumLen(chunks),
                        cmds |-> [b \in 1..Len(chunks) |-> Run(b, Ok(<<>>))]]}
                      \cup
                      {[ok |-> FALSE, count |-> 0, err |-> e,
                        total |-> SumLen(chunks) - Len(chunks[k]),
                        cmds |-> [b \in 1..Len(chunks) |->
                                     IF b # k THEN Run(b, Ok(<<>>)) ELSE Run(b, Err(e))]] :
                          k \in 1..Len(chunks), e \in tool.errs}

\* unban_all_in_jail: every way the loop over the chunks can end, as
\* [ok, count, err, total, cmds]; it ends with the chunk whose command fails, or
\* runs through them all.  count is the Ok value and err the Err message; total
\* is the local variable `total` when the function returns.
unban_all_in_jail(st, jail, tool) ==
    LET found == {i \in 1..Len(st.jails) : st.jails[i].name = jail}
    IN  IF found = {}
        THEN {[ok |-> FALSE, count |-> 0, err |-> "jail not found", total |-> 0,
               cmds |-> <<>>]}
        ELSE LET jail_status == st.jails[CHOOSE i \in found : \A j \in found : i <= j]
                 chunks == Chunks(jail_status.ips, ChunkSize)
                 Run(b, res) == Cmd("set", Some(jail), "unbanip", Ips(chunks[b]), res)
             IN  IF jail_status.ips = <<>>
                 THEN {[ok |-> TRUE, count |-> 0, err |-> "", total |-> 0, cmds |-> <<>>]}
                 ELSE {[ok |-> TRUE, count |-> SumLen(chunks), err |-> "",
                        total |-> SumLen(chunks),
                        cmds |-> [b \in 1..Len(chunks) |-> Run(b, Ok(<<>>))]]}
                      \cup
                      {[ok |-> FALSE, count |-> 0, err |-> e,
                        total |-> SumLen(SubSeq(chunks, 1, k - 1)),
                        cmds |-> [b \in 1..k |->
                                     IF b < k THEN Run(b, Ok(<<>>)) ELSE Run(b, Err(e))]] :
                          k \in 1..Len(chunks), e \in tool.errs}

(***************************************************************************)
(* Key events.  A key is [code, ch, ctrl, shift]: code is "Char" (with the *)
(* character ch) or the name of a special key.                             *)
(***************************************************************************)
Key(code) == [code |-> code, ch |-> "", ctrl |-> FALSE, shift |-> FALSE]

CharKey(c) == [code |-> "Char", ch |-> c, ctrl |-> FALSE, shift |-> FALSE]

CtrlKey(c) == [code |-> "Char", ch |-> c, ctrl |-> TRUE, shift |-> FALSE]

ShiftKey(c) == [code |-> "Char", ch |-> c, ctrl |-> FALSE, shift |-> TRUE]

IsChar(key, set) == key.code = "Char" /\ key.ch \in set

\* handle_search_key applying the filter to the stored ban lists on Enter
handle_search_key_filtering_snapshot(key, st) ==
    CASE key.code = "Esc" ->
            [st EXCEPT !.search_mode = FALSE, !.status = Msg("Filter canceled")]
      [] key.code = "Enter" ->
            [st EXCEPT !.search_mode = FALSE, !.ip_state = Some(0),
                       !.status = Msg("Filter applied"),
                       !.jails = [j \in 1..Len(st.jails) |->
                                     [st.jails[j] EXCEPT !.ips = filtered_ips(st, st.jails[j])]]]
      [] key.code = "Backspace" ->
            [st EXCEPT !.search_query = pop(st.search_query)]
      [] key.code = "Char" /\ ~key.ctrl ->
            [st EXCEPT !.search_query = Append(st.search_query, key.ch)]
      [] OTHER -> st

\* handle_search_key dropping the typed query on Esc
handle_search_key_clearing(key, st) ==
    CASE key.code = "Esc" ->
            [st EXCEPT !.search_mode = FALSE, !.search_query = <<>>,
                       !.status = Msg("Filter canceled")]
      [] key.code = "Enter" ->
            [st EXCEPT !.search_mode = FALSE, !.ip_state = Some(0),
                       !.status = Msg("Filter applied")]
      [] key.code = "Backspace" ->
            [st EXCEPT !.search_query = pop(st.search_query)]
      [] key.code = "Char" /\ ~key.ctrl ->
            [st EXCEPT !.search_query = Append(st.search_query, key.ch)]
      [] OTHER -> st

handle_search_key(key, st) ==
    CASE key.code = "Esc" ->
            [st EXCEPT !.search_mode = FALSE, !.status = Msg("Filter canceled")]
      [] key.code = "Enter" ->
            [st EXCEPT !.search_mode = FALSE, !.ip_state = Some(0),
                       !.status = Msg("Filter applied")]
      [] key.code = "Backspace" ->
            [st EXCEPT !.search_query = pop(st.search_query)]
      [] key.code = "Char" /\ ~key.ctrl ->
            [st EXCEPT !.search_query = Append(st.search_query, key.ch)]
      [] OTHER -> st

\* handle_ban_key banning in the jail selected when enter is pressed
handle_ban_key_in_selected_jail(key, st, modal, tool, now) ==
    CASE key.code = "Esc" ->
            {Outcome([st EXCEPT !.modal = None, !.status = Msg("Action canceled")],
                     <<>>, FALSE)}
      [] key.code = "Backspace" ->
            {Outcome([st EXCEPT !.modal = Some(BanIpModal(modal.jail, pop(modal.input), None))],
                     <<>>, FALSE)}
      [] key.code = "Char" /\ ~key.ctrl ->
            {Outcome([st EXCEPT !.modal =
                                    Some(BanIpModal(modal.jail, Append(modal.input, key.ch),
                                                    None))],
                     <<>>, FALSE)}
      [] key.code = "Enter" ->
            LET ip == trim(modal.input)
                jail == IF selected_jail(st) = None THEN modal.jail
                        ELSE Unwrap(selected_jail(st)).name
                Run(res) == Cmd("set", Some(jail), "banip", <<ip>>, res)
            IN  IF ~IsIpAddr(ip)
                THEN {Outcome([st EXCEPT !.modal =
                                             Some(BanIpModal(modal.jail, modal.input,
                                                             Some(Msg("Invalid IP address"))))],
                              <<>>, FALSE)}
                ELSE ThenRefresh([st EXCEPT !.status = Status("Banned {ip} in {jail}",
                                                              jail, ip, None, ""),
                                            !.modal = None],
                                 <<Run(Ok(<<>>))>>, tool, now)
                     \cup
                     {Outcome([st EXCEPT !.modal =
                                             Some(BanIpModal(modal.jail, modal.input,
                                                             Some(Status("Ban failed: {err}",
                                                                         <<>>, <<>>, None, e))))],
                              <<Run(Err(e))>>, FALSE) : e \in tool.errs}
      [] OTHER ->
            {Outcome([st EXCEPT !.modal = Some(BanIpModal(modal.jail, modal.input, None))],
                     <<>>, FALSE)}

\* handle_ban_key reporting an invalid input on the status line and closing
handle_ban_key_closing(key, st, modal, tool, now) ==
    CASE key.code = "Esc" ->
            {Outcome([st EXCEPT !.modal = None, !.status = Msg("Action canceled")],
                     <<>>, FALSE)}
      [] key.code = "Backspace" ->
            {Outcome([st EXCEPT !.modal = Some(BanIpModal(modal.jail, pop(modal.input), None))],
                     <<>>, FALSE)}
      [] key.code = "Char" /\ ~key.ctrl ->
            {Outcome([st EXCEPT !.modal =
                                    Some(BanIpModal(modal.jail, Append(modal.input, key.ch),
                                                    None))],
                     <<>>, FALSE)}
      [] key.code = "Enter" ->
            LET ip == trim(modal.input)
                Run(res) == Cmd("set", Some(modal.jail), "banip", <<ip>>, res)
            IN  IF ~IsIpAddr(ip)
                THEN {Outcome([st EXCEPT !.modal = None,
                                         !.status = Msg("Invalid IP address")],
                              <<>>, FALSE)}
                ELSE ThenRefresh([st EXCEPT !.status = Status("Banned {ip} in {jail}",
                                                              modal.jail, ip, None, ""),
                                            !.modal = None],
                                 <<Run(Ok(<<>>))>>, tool, now)
                     \cup
                     {Outcome([st EXCEPT !.modal =
                                             Some(BanIpModal(modal.jail, modal.input,
                                                             Some(Status("Ban failed: {err}",
                                                                         <<>>, <<>>, None, e))))],
                              <<Run(Err(e))>>, FALSE) : e \in tool.errs}
      [] OTHER ->
            {Outcome([st EXCEPT !.modal = Some(BanIpModal(modal.jail, modal.input, None))],
                     <<>>, FALSE)}

\* handle_ban_key emptying the input when the command fails
handle_ban_key_emptying(key, st, modal, tool, now) ==
    CASE key.code = "Esc" ->
            {Outcome([st EXCEPT !.modal = None, !.status = Msg("Action canceled")],
                     <<>>, FALSE)}
      [] key.code = "Backspace" ->
            {Outcome([st EXCEPT !.modal = Some(BanIpModal(modal.jail, pop(modal.input), None))],
                     <<>>, FALSE)}
      [] key.code = "Char" /\ ~key.ctrl ->
            {Outcome([st EXCEPT !.modal =
                                    Some(BanIpModal(modal.jail, Append(modal.input, key.ch),
                                                    None))],
                     <<>>, FALSE)}
      [] key.code = "Enter" ->
            LET ip == trim(modal.input)
                Run(res) == Cmd("set", Some(modal.jail), "banip", <<ip>>, res)
            IN  IF ~IsIpAddr(ip)
                THEN {Outcome([st EXCEPT !.modal =
                                             Some(BanIpModal(modal.jail, modal.input,
                                                             Some(Msg("Invalid IP address"))))],
                              <<>>, FALSE)}
                ELSE ThenRefresh([st EXCEPT !.status = Status("Banned {ip} in {jail}",
                                                              modal.jail, ip, None, ""),
                                            !.modal = None],
                                 <<Run(Ok(<<>>))>>, tool, now)
                     \cup
                     {Outcome([st EXCEPT !.modal =
                                             Some(BanIpModal(modal.jail, <<>>,
                                                             Some(Status("Ban failed: {err}",
                                                                         <<>>, <<>>, None, e))))],
                              <<Run(Err(e))>>, FALSE) : e \in tool.errs}
      [] OTHER ->
            {Outcome([st EXCEPT !.modal = Some(BanIpModal(modal.jail, modal.input, None))],
                     <<>>, FALSE)}

\* handle_modal_key for Modal::BanIp
handle_ban_key(key, st, modal, tool, now) ==
    CASE key.code = "Esc" ->
            {Outcome([st EXCEPT !.modal = None, !.status = Msg("Action canceled")],
                     <<>>, FALSE)}
      [] key.code = "Backspace" ->
            {Outcome([st EXCEPT !.modal = Some(BanIpModal(modal.jail, pop(modal.input), None))],
                     <<>>, FALSE)}
      [] key.code = "Char" /\ ~key.ctrl ->
            {Outcome([st EXCEPT !.modal =
                                    Some(BanIpModal(modal.jail, Append(modal.input, key.ch),
                                                    None))],
                     <<>>, FALSE)}
      [] key.code = "Enter" ->
            LET ip == trim(modal.input)
                Run(res) == Cmd("set", Some(modal.jail), "banip", <<ip>>, res)
            IN  IF ~IsIpAddr(ip)
                THEN {Outcome([st EXCEPT !.modal =
                                             Some(BanIpModal(modal.jail, modal.input,
                                                             Some(Msg("Invalid IP address"))))],
                              <<>>, FALSE)}
                ELSE ThenRefresh([st EXCEPT !.status = Status("Banned {ip} in {jail}",
                                                              modal.jail, ip, None, ""),
                                            !.modal = None],
                                 <<Run(Ok(<<>>))>>, tool, now)
                     \cup
                     {Outcome([st EXCEPT !.modal =
                                             Some(BanIpModal(modal.jail, modal.input,
                                                             Some(Status("Ban failed: {err}",
                                                                         <<>>, <<>>, None, e))))],
                              <<Run(Err(e))>>, FALSE) : e \in tool.errs}
      [] OTHER ->
            {Outcome([st EXCEPT !.modal = Some(BanIpModal(modal.jail, modal.input, None))],
                     <<>>, FALSE)}

\* confirm_unban_ip aiming at the entry selected when the key is pressed
confirm_unban_ip_of_selection(st, modal, tool, now) ==
    LET jail == selected_jail(st)
        entry == IF jail = None THEN None
                 ELSE selected_ip(st, current_ip_view(st, Unwrap(jail), now))
        target == IF entry = None THEN modal
                  ELSE UnbanIpModal(Unwrap(jail).name, Unwrap(entry).ip)
        Run(res) == Cmd("set", Some(target.jail), "unbanip", <<target.ip>>, res)
    IN  ThenRefresh([st EXCEPT !.status = Status("Unbanned {ip} from {jail}",
                                                 target.jail, target.ip, None, ""),
                               !.modal = None],
                    <<Run(Ok(<<>>))>>, tool, now)
        \cup
        {Outcome([st EXCEPT !.status = Status("Unban failed for {ip}: {err}",
                                              <<>>, target.ip, None, e),
                            !.modal = None],
                 <<Run(Err(e))>>, FALSE) : e \in tool.errs}

\* confirm_unban_ip leaving the dialog open when the command fails
confirm_unban_ip_reprompting(st, modal, tool, now) ==
    LET Run(res) == Cmd("set", Some(modal.jail), "unbanip", <<modal.ip>>, res)
    IN  ThenRefresh([st EXCEPT !.status = Status("Unbanned {ip} from {jail}",
                                                 modal.jail, modal.ip, None, ""),
                               !.modal = None],
                    <<Run(Ok(<<>>))>>, tool, now)
        \cup
        {Outcome([st EXCEPT !.status = Status("Unban failed for {ip}: {err}",
                                              <<>>, modal.ip, None, e)],
                 <<Run(Err(e))>>, FALSE) : e \in tool.errs}

\* the confirm arm of handle_modal_key for Modal::UnbanIp
confirm_unban_ip(st, modal, tool, now) ==
    LET Run(res) == Cmd("set", Some(modal.jail), "unbanip", <<modal.ip>>, res)
    IN  ThenRefresh([st EXCEPT !.status = Status("Unbanned {ip} from {jail}",
                                                 modal.jail, modal.ip, None, ""),
                               !.modal = None],
                    <<Run(Ok(<<>>))>>, tool, now)
        \cup
        {Outcome([st EXCEPT !.status = Status("Unban failed for {ip}: {err}",
                                              <<>>, modal.ip, None, e),
                            !.modal = None],
                 <<Run(Err(e))>>, FALSE) : e \in tool.errs}

\* confirm_unban_all running the bulk unban on the first confirmation
confirm_unban_all_at_once(st, modal, tool, now) ==
    UNION {IF r.ok
           THEN ThenRefresh([st EXCEPT !.status =
                                           Status("Unbanned {count} IPs from {jail}",
                                                  modal.jail, <<>>, Some(r.count), ""),
                                       !.modal = None],
                            r.cmds, tool, now)
           ELSE {Outcome([st EXCEPT !.status =
                                        Status("Unban all failed for {jail}: {err}",
                                               modal.jail, <<>>, None, r.err),
                                    !.modal = None],
                         r.cmds, FALSE)} :
              r \in unban_all_in_jail(st, modal.jail, tool)}

\* the confirm arm of handle_modal_key for Modal::UnbanAll
\* confirm_unban_all refreshing after a failed batch too
confirm_unban_all_refreshing(st, modal, tool, now) ==
    IF modal.step = 1
    THEN {Outcome([st EXCEPT !.modal = Some(UnbanAllModal(modal.jail, 2)),
                             !.status = Msg("Second confirmation required")],
                  <<>>, FALSE)}
    ELSE UNION {ThenRefresh([st EXCEPT !.status =
                                           IF r.ok
                                           THEN Status("Unbanned {count} IPs from {jail}",
                                                       modal.jail, <<>>, Some(r.count), "")
                                           ELSE Status("Unban all failed for {jail}: {err}",
                                                       modal.jail, <<>>, None, r.err),
                                       !.modal = None],
                            r.cmds, tool, now) :
                   r \in unban_all_in_jail(st, modal.jail, tool)}

confirm_unban_all(st, modal, tool, now) ==
    IF modal.step = 1
    THEN {Outcome([st EXCEPT !.modal = Some(UnbanAllModal(modal.jail, 2)),
                             !.status = Msg("Second confirmation required")],
                  <<>>, FALSE)}
    ELSE UNION {IF r.ok
                THEN ThenRefresh([st EXCEPT !.status =
                                                Status("Unbanned {count} IPs from {jail}",
                                                       modal.jail, <<>>, Some(r.count), ""),
                                            !.modal = None],
                                 r.cmds, tool, now)
                ELSE {Outcome([st EXCEPT !.status =
                                             Status("Unban all failed for {jail}: {err}",
                                                    modal.jail, <<>>, None, r.err),
                                         !.modal = None],
                              r.cmds, FALSE)} :
                   r \in unban_all_in_jail(st, modal.jail, tool)}

\* handle_modal_key letting Tab change the focus under a confirmation dialog
handle_modal_key_with_tab(key, st, modal, tool, now) ==
    IF modal.kind = "BanIp" THEN handle_ban_key(key, st, modal, tool, now)
    ELSE CASE IsChar(key, {"y", "Y"}) \/ key.code = "Enter" ->
                 IF modal.kind = "UnbanIp" THEN confirm_unban_ip(st, modal, tool, now)
                 ELSE confirm_unban_all(st, modal, tool, now)
           [] IsChar(key, {"n", "N"}) \/ key.code = "Esc" ->
                 {Outcome([st EXCEPT !.modal = None, !.status = Msg("Action canceled")],
                          <<>>, FALSE)}
           [] key.code = "Tab" ->
                 {Outcome([st EXCEPT !.focus = IF st.focus = "Jails" THEN "Ips" ELSE "Jails"],
                          <<>>, FALSE)}
           [] OTHER -> {Outcome(st, <<>>, FALSE)}

handle_modal_key(key, st, modal, tool, now) ==
    IF modal.kind = "BanIp" THEN handle_ban_key(key, st, modal, tool, now)
    ELSE CASE IsChar(key, {"y", "Y"}) \/ key.code = "Enter" ->
                 IF modal.kind = "UnbanIp" THEN confirm_unban_ip(st, modal, tool, now)
                 ELSE confirm_unban_all(st, modal, tool, now)
           [] IsChar(key, {"n", "N"}) \/ key.code = "Esc" ->
                 {Outcome([st EXCEPT !.modal = None, !.status = Msg("Action canceled")],
                          <<>>, FALSE)}
           [] OTHER -> {Outcome(st, <<>>, FALSE)}

\* handle_key with no modal open and search editing off
handle_browse_key(key, st, tool, now) ==
    LET Stay(next) == {Outcome(next, <<>>, FALSE)}
        jail == selected_jail(st)
        OpenUnban ==
            IF jail = None THEN Stay(st)
            ELSE LET entry == selected_ip(st, current_ip_view(st, Unwrap(jail), now))
                 IN  IF entry = None THEN Stay(st)
                     ELSE Stay([st EXCEPT !.modal =
                                              Some(UnbanIpModal(Unwrap(jail).name,
                                                                Unwrap(entry).ip))])
        OpenUnbanAll ==
            IF jail = None THEN Stay(st)
            ELSE Stay([st EXCEPT !.modal = Some(UnbanAllModal(Unwrap(jail).name, 1))])
    IN  CASE IsChar(key, {"q", "Q"}) -> {Outcome(st, <<>>, TRUE)}
          [] IsChar(key, {"r", "R"}) -> refresh(st, tool, now)
          [] IsChar(key, {"t", "T"}) ->
                Stay([st EXCEPT !.autorefresh = ~st.autorefresh,
                                !.status = IF ~st.autorefresh
                                           THEN Msg("Auto-refresh enabled")
                                           ELSE Msg("Auto-refresh disabled")])
          [] IsChar(key, {"s", "S"}) ->
                Stay([st EXCEPT !.sort_mode = IF st.sort_mode = "Ip" THEN "TimeLeft" ELSE "Ip",
                                !.ip_state = Some(0),
                                !.status = Msg("Sort mode updated")])
          [] IsChar(key, {"b", "B"}) ->
                IF jail = None THEN Stay(st)
                ELSE Stay([st EXCEPT !.modal = Some(BanIpModal(Unwrap(jail).name, <<>>, None)),
                                     !.status = Msg("Enter IP to ban")])
          [] IsChar(key, {"/"}) -> Stay([st EXCEPT !.search_mode = TRUE])
          [] IsChar(key, {"x", "X"}) ->
                Stay([st EXCEPT !.search_query = <<>>, !.ip_state = Some(0),
                                !.status = Msg("Filter cleared")])
          [] key.code = "Tab" ->
                Stay([st EXCEPT !.focus = IF st.focus = "Jails" THEN "Ips" ELSE "Jails"])
          [] key.code = "Up" \/ IsChar(key, {"k"}) ->
                Stay(IF st.focus = "Jails" THEN move_jail(st, -1) ELSE move_ip(st, -1, now))
          [] key.code = "Down" \/ IsChar(key, {"j"}) ->
                Stay(IF st.focus = "Jails" THEN move_jail(st, 1) ELSE move_ip(st, 1, now))
          [] key.code = "Enter" ->
                IF st.focus = "Jails" THEN Stay([st EXCEPT !.focus = "Ips"]) ELSE OpenUnban
          [] IsChar(key, {"u", "U"}) -> OpenUnban
          [] IsChar(key, {"A"}) -> OpenUnbanAll
          [] IsChar(key, {"a"}) /\ key.shift -> OpenUnbanAll
          [] OTHER -> Stay(st)

\* handle_key looking at the quit key before the dialog and the filter
handle_key_quitting_anywhere(key, st, tool, now) ==
    IF IsChar(key, {"c"}) /\ key.ctrl THEN {Outcome(st, <<>>, TRUE)}
    ELSE IF IsChar(key, {"q", "Q"}) THEN {Outcome(st, <<>>, TRUE)}
    ELSE IF st.modal # None THEN handle_modal_key(key, st, Unwrap(st.modal), tool, now)
    ELSE IF st.search_mode THEN {Outcome(handle_search_key(key, st), <<>>, FALSE)}
    ELSE handle_browse_key(key, st, tool, now)

handle_key(key, st, tool, now) ==
    IF IsChar(key, {"c"}) /\ key.ctrl THEN {Outcome(st, <<>>, TRUE)}
    ELSE IF st.modal # None THEN handle_modal_key(key, st, Unwrap(st.modal), tool, now)
    ELSE IF st.search_mode THEN {Outcome(handle_search_key(key, st), <<>>, FALSE)}
    ELSE handle_browse_key(key, st, tool, now)

(***************************************************************************)
(* Mouse events and the layout.                                            *)
(***************************************************************************)
Rect(x, y, width, height) == [x |-> x, y |-> y, width |-> width, height |-> height]

\* The rectangles draw_ui gets from the layout engine for a terminal of 20
\* columns and 18 rows: the two panels of the body, and the two buttons of the
\* dialog.
Layout ==
    [jails |-> Rect(0, 3, 7, 8),
     ips |-> Rect(7, 3, 13, 8),
     modal_yes |-> Rect(5, 10, 5, 1),
     modal_no |-> Rect(10, 10, 5, 1)]

saturating_sub(a, b) == IF a > b THEN a - b ELSE 0

point_in_rect(x, y, rect) ==
    /\ x >= rect.x
    /\ x < rect.x + rect.width
    /\ y >= rect.y
    /\ y < rect.y + rect.height

\* list_index_from_mouse counting the rows from the border of the panel
list_index_from_mouse_from_border(x, y, area, len) ==
    LET inner == Rect(area.x + 1, area.y + 1,
                      saturating_sub(area.width, 2), saturating_sub(area.height, 2))
        row == saturating_sub(y, area.y)
    IN  IF len = 0 THEN None
        ELSE IF ~point_in_rect(x, y, inner) THEN None
        ELSE IF row >= len THEN None
        ELSE Some(row)

list_index_from_mouse(x, y, area, len) ==
    LET inner == Rect(area.x + 1, area.y + 1,
                      saturating_sub(area.width, 2), saturating_sub(area.height, 2))
        row == saturating_sub(y, inner.y)
    IN  IF len = 0 THEN None
        ELSE IF ~point_in_rect(x, y, inner) THEN None
        ELSE IF row >= len THEN None
        ELSE Some(row)

\* handle_mouse for a press of the left button at column x, row y
handle_mouse(x, y, st, tool, now) ==
    LET Stay(next) == {Outcome(next, <<>>, FALSE)}
        jail_index == IF st.jail_rect = None THEN None
                      ELSE list_index_from_mouse(x, y, Unwrap(st.jail_rect), Len(st.jails))
    IN  IF st.modal # None
        THEN IF st.modal_yes_rect # None /\ point_in_rect(x, y, Unwrap(st.modal_yes_rect))
             THEN handle_modal_key(Key("Enter"), st, Unwrap(st.modal), tool, now)
             ELSE IF st.modal_no_rect # None /\ point_in_rect(x, y, Unwrap(st.modal_no_rect))
             THEN handle_modal_key(Key("Esc"), st, Unwrap(st.modal), tool, now)
             ELSE Stay(st)
        ELSE IF jail_index # None
        THEN Stay([st EXCEPT !.focus = "Jails", !.jail_state = jail_index,
                             !.ip_state = Some(0)])
        ELSE IF st.ip_rect = None \/ st.jail_state = None THEN Stay(st)
        ELSE IF Get(st.jails, Unwrap(st.jail_state)) = None THEN Stay(st)
        ELSE LET jail == Unwrap(Get(st.jails, Unwrap(st.jail_state)))
                 view == current_ip_view(st, jail, now)
                 index == list_index_from_mouse(x, y, Unwrap(st.ip_rect), Len(view))
             IN  IF index = None THEN Stay(st)
                 ELSE Stay([st EXCEPT !.ip_state = index,
                                      !.focus = "Ips",
                                      !.modal = Some(UnbanIpModal(jail.name,
                                                                  view[Unwrap(index) + 1].ip))])

\* render_ips: the selection clamped to the view of the selected jail.  Only the
\* length of the view is used, which sorting does not change, so the length is
\* taken before the sort.  The list handed to the widget always has an item (a
\* row per entry, or one line of text when there is none), and the widget leaves
\* the selection as it is.
render_ips(st) ==
    IF st.jail_state = None THEN st
    ELSE LET jail == Get(st.jails, Unwrap(st.jail_state))
             view_len == IF jail = None THEN 0
                         ELSE Len(filtered_ips(st, Unwrap(jail)))
         IN  IF view_len = 0 THEN [st EXCEPT !.ip_state = None]
             ELSE IF UnwrapOr(st.ip_state, 0) >= view_len
             THEN [st EXCEPT !.ip_state = Some(saturating_sub(view_len, 1))]
             ELSE st

\* draw_ui: what drawing a frame writes into the state
draw_ui(st) ==
    LET drawn == render_ips([st EXCEPT !.jail_rect = Some(Layout.jails),
                                       !.ip_rect = Some(Layout.ips)])
    IN  IF st.modal # None
        THEN [drawn EXCEPT !.modal_yes_rect = Some(Layout.modal_yes),
                           !.modal_no_rect = Some(Layout.modal_no)]
        ELSE [drawn EXCEPT !.modal_yes_rect = None, !.modal_no_rect = None]

(***************************************************************************)
(* The environment of the checks: what the tool answers, what the user     *)
(* presses and where the user clicks.                                      *)
(***************************************************************************)
sshd == <<"s", "s", "h", "d">>

nginx == <<"n", "g", "i", "n", "x">>

Ip1 == <<":", ":", "1">>

Ip2 == <<":", ":", "2">>

IpA == <<":", ":", "a">>

\* the answers for one jail whose ban list prints as `tokens`; the commands
\* named in `failing` fail
JailAnswers(tokens, failing) ==
    LET Answer(what, out) == IF what \in failing THEN Err("NOK " \o what) ELSE Ok(out)
    IN  [status |-> Answer("status",
                           [currently |-> Some(<<"1">>), total |-> Some(<<"2">>),
                            banned |-> Some(extract_ips(tokens))]),
         bantime |-> Answer("bantime", <<"6", "0">>),
         findtime |-> Answer("findtime", <<"6", "0", "0">>),
         maxretry |-> Answer("maxretry", <<"5">>),
         banip |-> Answer("banip", tokens)]

\* the daemon running with the jails `names`
Daemon(names, jail) == [status |-> Ok([jail_list |-> Some(names)]), jail |-> jail]

\* the daemon cannot be reached
DaemonDown == [status |-> Err("NOK status"), jail |-> <<>>]

Worlds ==
    { DaemonDown,
      Daemon(<<>>, <<>>),
      Daemon(<<nginx, sshd>>,
             [n \in {nginx, sshd} |->
                 IF n = sshd THEN JailAnswers(<<Ip2, <<"9">>, Ip1>>, {})
                 ELSE JailAnswers(<<>>, {})]),
      Daemon(<<sshd, nginx>>,
             [n \in {nginx, sshd} |->
                 IF n = sshd THEN JailAnswers(<<Ip2, <<"9">>, Ip1>>, {})
                 ELSE JailAnswers(<<>>, {"status"})]),
      Daemon(<<sshd, nginx>>,
             [n \in {nginx, sshd} |->
                 IF n = sshd THEN JailAnswers(<<IpA>>, {"banip", "bantime"})
                 ELSE JailAnswers(<<Ip1, Ip2>>, {})]) }

\* the readings of the wall clock
Nows == 0..MaxNow

\* the tool as the handlers meet it: what a fetch may return at each reading of
\* the clock, and the messages a failing mutation command may print
Tool ==
    [fetch |-> [now \in Nows |-> {fetch_status(w, now) : w \in Worlds}],
     errs |-> {"NOK"}]

\* one key for every arm of the key handlers
Keys ==
    { CtrlKey("c"), CharKey("q"), CharKey("r"), CharKey("t"), CharKey("s"), CharKey("b"),
      CharKey("/"), CharKey("x"), Key("Tab"), Key("Up"), Key("Down"), Key("Enter"),
      CharKey("u"), CharKey("A"), ShiftKey("a"), CharKey("y"), CharKey("n"), Key("Esc"),
      Key("Backspace"), Key("F1") }

\* the characters the user types into the filter and into the ban dialog
TypedChars == {":", "a"}

\* columns and rows of the presses: inside the jails panel, inside the bans
\* panel (and over either button of the dialog); on the top border, on the first
\* three rows of a list and on the row of the buttons
Clicks == {[x |-> x, y |-> y] : x \in {1, 8, 12}, y \in {3, 4, 5, 6, 10}}

(***************************************************************************)
(* run_app.  pc is the place in the loop: "start" before the first         *)
(* refresh, "tick" at the top of the loop, "poll" waiting for an event,    *)
(* "done" after the loop.  log holds the commands of the last step.        *)
(***************************************************************************)
Init ==
    /\ state = UiState_new
    /\ pc = "start"
    /\ log = <<>>

\* the step of the loop that outcome o of a handler makes
Becomes(o, next_pc) ==
    /\ state' = o.st
    /\ log' = o.log
    /\ pc' = IF o.quit THEN "done" ELSE next_pc

\* state.refresh() before the loop
Startup(tool) ==
    /\ pc = "start"
    /\ \E now \in Nows : \E o \in refresh(state, tool, now) : Becomes(o, "tick")

\* loop_top refreshing whenever the interval has passed, toggle or not
loop_top_ignoring_toggle(st, tool, now) ==
    LET due == st.last_refresh >= RefreshInterval
    IN  {Outcome(draw_ui(o.st), o.log, FALSE) :
            o \in IF due THEN refresh(st, tool, now) ELSE {Outcome(st, <<>>, FALSE)}}

\* the top of the loop: the timed refresh, then the frame is drawn
loop_top(st, tool, now) ==
    LET due == st.autorefresh /\ st.last_refresh >= RefreshInterval
    IN  {Outcome(draw_ui(o.st), o.log, FALSE) :
            o \in IF due THEN refresh(st, tool, now) ELSE {Outcome(st, <<>>, FALSE)}}

Tick(tool) ==
    /\ pc = "tick"
    /\ \E now \in Nows : \E o \in loop_top(state, tool, now) : Becomes(o, "poll")

\* the text being edited, when a key press edits one
EditedText(st) ==
    IF st.modal # None
    THEN IF Unwrap(st.modal).kind = "BanIp" THEN Some(Unwrap(st.modal).input) ELSE None
    ELSE IF st.search_mode THEN Some(st.search_query)
    ELSE None

\* While a text is edited the user types the characters `typed`, up to MaxTyped
\* of them; the other character keys are pressed when no text is edited.
KeysAt(st, keys, typed) ==
    IF EditedText(st) = None THEN keys
    ELSE {k \in keys : k.code # "Char" \/ k.ctrl}
         \cup {CharKey(c) : c \in IF Len(Unwrap(EditedText(st))) < MaxTyped THEN typed ELSE {}}

KeyEvent(keys, typed, tool) ==
    /\ pc = "poll"
    /\ \E key \in KeysAt(state, keys, typed) : \E now \in Nows :
          \E o \in handle_key(key, state, tool, now) : Becomes(o, "tick")

\* KeysAt and KeyEvent with the bound on the typed text given
KeysUpTo(st, keys, typed, max) ==
    IF EditedText(st) = None THEN keys
    ELSE {k \in keys : k.code # "Char" \/ k.ctrl}
         \cup {CharKey(c) : c \in IF Len(Unwrap(EditedText(st))) < max THEN typed ELSE {}}

TypingEvent(keys, typed, max, tool) ==
    /\ pc = "poll"
    /\ \E key \in KeysUpTo(state, keys, typed, max) : \E now \in Nows :
          \E o \in handle_key(key, state, tool, now) : Becomes(o, "tick")

MouseEvent(clicks, tool) ==
    /\ pc = "poll"
    /\ \E c \in clicks : \E now \in Nows :
          \E o \in handle_mouse(c.x, c.y, state, tool, now) : Becomes(o, "tick")

\* the poll times out, or the event is neither a key nor a left-button press
NoEvent ==
    /\ pc = "poll"
    /\ pc' = "tick"
    /\ log' = <<>>
    /\ UNCHANGED state

\* a second passes while the loop waits
Elapse ==
    /\ pc = "poll"
    /\ state.last_refresh < RefreshInterval
    /\ state' = [state EXCEPT !.last_refresh = state.last_refresh + 1]
    /\ UNCHANGED <<pc, log>>

Next ==
    \/ Startup(Tool)
    \/ Tick(Tool)
    \/ KeyEvent(Keys, TypedChars, Tool)
    \/ MouseEvent(Clicks, Tool)
    \/ NoEvent
    \/ Elapse

Spec == Init /\ [][Next]_vars

(***************************************************************************)
(* The environment of the checks of the bulk unban: jails large enough for *)
(* several batches.  nginx holds one ban and sshd holds bulk bans, printed *)
(* by the tool from the highest number down, so the stored order is not    *)
(* the order of any view.                                                  *)
(***************************************************************************)
RECURSIVE DecimalText(_)
DecimalText(n) ==
    LET last == CHOOSE c \in Digits : DigitVal[c] = n % 10
    IN  IF n < 10 THEN <<last>> ELSE DecimalText(n \div 10) \o <<last>>

BulkIp(i) == <<":", ":">> \o DecimalText(i)

BulkTokens(n) == [i \in 1..n |-> BulkIp(n + 1 - i)]

\* no ban, one ban, and for every number of full batches up to MaxChunks that
\* many bans and one more
BulkSizes == {0, 1} \cup UNION {{k * ChunkSize, k * ChunkSize + 1} : k \in 1..MaxChunks}

BulkWorlds ==
    {DaemonDown}
    \cup {Daemon(<<nginx, sshd>>,
                 [name \in {nginx, sshd} |->
                     IF name = sshd THEN JailAnswers(BulkTokens(n), {})
                     ELSE JailAnswers(<<Ip1>>, {})]) : n \in BulkSizes}

BulkTool ==
    [fetch |-> [now \in Nows |-> {fetch_status(w, now) : w \in BulkWorlds}],
     errs |-> {"NOK"}]

\* the keys around the bulk unban: open it or the unban of one address, confirm
\* and cancel, change the sort mode, edit the filter and leave it, move between
\* the jails
BulkKeys ==
    { CharKey("A"), CharKey("u"), CharKey("y"), CharKey("n"), CharKey("s"), CharKey("/"),
      Key("Esc"), Key("Down") }

BulkTypedChars == {"1"}

\* presses on either button of the dialog
BulkClicks == {[x |-> 8, y |-> 10], [x |-> 12, y |-> 10]}

NextBulk ==
    \/ Startup(BulkTool)
    \/ Tick(BulkTool)
    \/ KeyEvent(BulkKeys, BulkTypedChars, BulkTool)
    \/ MouseEvent(BulkClicks, BulkTool)
    \/ NoEvent

SpecBulk == Init /\ [][NextBulk]_vars

(***************************************************************************)
(* The environment of the checks of the ban dialog: the user opens the     *)
(* dialog, types up to MaxBanTyped characters, among them texts that are   *)
(* an address ("::", "::a"), texts that are one after trimming (" ::") and *)
(* texts that are none, and presses enter, escape or backspace or clicks   *)
(* a button of the dialog.  The user moves between the jails and turns     *)
(* auto-refresh on before, and time passes, so that the loop top may fetch *)
(* while the dialog is open.                                               *)
(***************************************************************************)
BanKeys ==
    {CharKey("b"), Key("Enter"), Key("Esc"), Key("Backspace"), Key("Down"), CharKey("t")}

BanTypedChars == {":", " ", "a"}

NextBan ==
    \/ Startup(Tool)
    \/ Tick(Tool)
    \/ TypingEvent(BanKeys, BanTypedChars, MaxBanTyped, Tool)
    \/ MouseEvent(BulkClicks, Tool)
    \/ NoEvent
    \/ Elapse

SpecBan == Init /\ [][NextBan]_vars

(***************************************************************************)
(* The environment of the checks of the view: one jail with addresses in   *)
(* both cases, with and without a time (a time of 0 is in the past at the  *)
(* later reading of the clock, a jail's bantime of 60 is then added), and  *)
(* a jail without times.  The user edits a filter of up to MaxQuery        *)
(* characters, among them both cases of a letter and the space, leaves the *)
(* editing either way, clears the filter, changes the sort mode and moves  *)
(* between jails and rows.                                                 *)
(***************************************************************************)
IpUpperA == <<":", ":", "A">>

ViewWorlds ==
    { Daemon(<<sshd, nginx>>,
             [name \in {nginx, sshd} |->
                 IF name = sshd
                 THEN JailAnswers(<<Ip2, <<"9">>, Ip1, IpUpperA, <<"3">>, IpA, <<"0">>>>, {})
                 ELSE JailAnswers(<<Ip1, IpA>>, {})]) }

ViewTool ==
    [fetch |-> [now \in Nows |-> {fetch_status(w, now) : w \in ViewWorlds}],
     errs |-> {"NOK"}]

ViewKeys ==
    { CharKey("/"), CharKey("x"), CharKey("s"), Key("Esc"), Key("Enter"), Key("Backspace"),
      Key("Down"), Key("Tab"), CtrlKey("a") }

ViewTypedChars == {"a", "A", " "}

NextView ==
    \/ Startup(ViewTool)
    \/ Tick(ViewTool)
    \/ TypingEvent(ViewKeys, ViewTypedChars, MaxQuery, ViewTool)
    \/ NoEvent

SpecView == Init /\ [][NextView]_vars

(***************************************************************************)
(* The daemon of the fetch checks: two jails, sshd listed before nginx.    *)
(* The plain status of sshd and the output of `get sshd banip --with-time` *)
(* are chosen separately, an address may be printed twice, every subset of *)
(* the four `get` commands of sshd may fail, the status of sshd may fail,  *)
(* and the status of nginx may fail.                                       *)
(***************************************************************************)
\* the answers for one jail whose plain status lists the tokens `listed` after
\* "Banned IP list:", counts them after "Currently banned:", and whose
\* `banip --with-time` prints `tokens`
FetchAnswers(listed, tokens, failing) ==
    [JailAnswers(tokens, failing) EXCEPT
        !.status = IF "status" \in failing THEN Err("NOK status")
                   ELSE Ok([currently |-> Some(DecimalText(Len(listed))),
                            total |-> Some(<<"9">>), banned |-> Some(listed)])]

\* what sshd prints: [listed, tokens]
FetchOutputs ==
    { [listed |-> <<Ip1, Ip2, Ip1>>, tokens |-> <<Ip1, <<"9">>, Ip2, Ip1, <<"3">>>>],
      [listed |-> <<Ip2, Ip1>>, tokens |-> <<Ip1, <<"9">>, Ip2>>],
      [listed |-> <<Ip1>>, tokens |-> <<Ip1, <<"9">>>>],
      [listed |-> <<>>, tokens |-> <<>>] }

GetCommands == {"bantime", "findtime", "maxretry", "banip"}

FetchWorlds ==
    {DaemonDown, Daemon(<<>>, <<>>)}
    \cup {Daemon(<<sshd, nginx>>,
                 [name \in {nginx, sshd} |->
                     IF name = sshd THEN FetchAnswers(o.listed, o.tokens, failing)
                     ELSE FetchAnswers(<<Ip1>>, <<Ip1>>, nginx_failing)]) :
            o \in FetchOutputs, failing \in (SUBSET GetCommands) \cup {{"status"}},
            nginx_failing \in {{}, {"status"}}}

FetchTool ==
    [fetch |-> [now \in Nows |-> {fetch_status(w, now) : w \in FetchWorlds}],
     errs |-> {"NOK"}]

\* refresh, move between the jails and the rows, and change the sort mode
FetchKeys == {CharKey("r"), Key("Down"), Key("Tab"), CharKey("s")}

NextFetch ==
    \/ Startup(FetchTool)
    \/ Tick(FetchTool)
    \/ KeyEvent(FetchKeys, BulkTypedChars, FetchTool)
    \/ NoEvent

SpecFetch == Init /\ [][NextFetch]_vars

(***************************************************************************)
(* Durations: format_duration, format_duration_compact and                 *)
(* parse_duration_string.                                                  *)
(***************************************************************************)
\* seconds split as both format functions split it
DurationUnits(seconds) ==
    [days |-> seconds \div 86400,
     hours |-> (seconds % 86400) \div 3600,
     minutes |-> ((seconds % 86400) % 3600) \div 60,
     secs |-> ((seconds % 86400) % 3600) % 60]

\* format!("{n}{unit}")
UnitText(n, unit) == DecimalText(n) \o <<unit>>

\* out with `text` pushed behind a space when out is not empty
PushSpaced(out, text) == IF out = <<>> THEN text ELSE out \o <<" ">> \o text

\* format_duration emitting the seconds whenever they are not zero
format_duration_with_seconds(seconds) ==
    LET u == DurationUnits(seconds)
        d == IF u.days > 0 THEN UnitText(u.days, "d") ELSE <<>>
        h == IF u.hours > 0 THEN PushSpaced(d, UnitText(u.hours, "h")) ELSE d
        m == IF u.minutes > 0 THEN PushSpaced(h, UnitText(u.minutes, "m")) ELSE h
    IN  IF seconds = 0 THEN <<"0", "s">>
        ELSE IF u.secs > 0 THEN PushSpaced(m, UnitText(u.secs, "s"))
        ELSE m

format_duration(seconds) ==
    LET u == DurationUnits(seconds)
        d == IF u.days > 0 THEN UnitText(u.days, "d") ELSE <<>>
        h == IF u.hours > 0 THEN PushSpaced(d, UnitText(u.hours, "h")) ELSE d
        m == IF u.minutes > 0 THEN PushSpaced(h, UnitText(u.minutes, "m")) ELSE h
    IN  IF seconds = 0 THEN <<"0", "s">>
        ELSE IF u.secs > 0 /\ m = <<>> THEN UnitText(u.secs, "s")
        ELSE m

\* format_duration_compact printing a duration under a minute without its unit
format_duration_compact_bare_seconds(seconds) ==
    LET u == DurationUnits(seconds)
        d == IF u.days > 0 THEN UnitText(u.days, "d") ELSE <<>>
        h == IF u.hours > 0 THEN d \o UnitText(u.hours, "h") ELSE d
        m == IF u.minutes > 0 THEN h \o UnitText(u.minutes, "m") ELSE h
    IN  IF seconds = 0 THEN <<"0", "s">>
        ELSE IF u.secs > 0 /\ m = <<>> THEN DecimalText(u.secs)
        ELSE m

format_duration_compact(seconds) ==
    LET u == DurationUnits(seconds)
        d == IF u.days > 0 THEN UnitText(u.days, "d") ELSE <<>>
        h == IF u.hours > 0 THEN d \o UnitText(u.hours, "h") ELSE d
        m == IF u.minutes > 0 THEN h \o UnitText(u.minutes, "m") ELSE h
    IN  IF seconds = 0 THEN <<"0", "s">>
        ELSE IF u.secs > 0 /\ m = <<>> THEN UnitText(u.secs, "s")
        ELSE m

\* the factors the arm of a unit letter multiplies the number by, in order;
\* None for a character that is no unit
UnitFactors(ch) ==
    CASE ch \in {"w", "W"} -> Some(<<7, 86400>>)
      [] ch \in {"d", "D"} -> Some(<<86400>>)
      [] ch \in {"h", "H"} -> Some(<<3600>>)
      [] ch \in {"m", "M"} -> Some(<<60>>)
      [] ch \in {"s", "S"} -> Some(<<>>)
      [] OTHER -> None

\* value * f1 * f2 ... on u64: the wrapped product and whether a step overflowed
RECURSIVE Product(_, _)
Product(value, factors) ==
    IF factors = <<>> THEN [value |-> value, overflow |-> FALSE]
    ELSE LET p == Product(value, SubSeq(factors, 1, Len(factors) - 1))
             f == factors[Len(factors)]
         IN  [value |-> WrappingMul(p.value, f),
              overflow |-> p.overflow \/ MulOverflows(p.value, f)]

\* the variables of the loop of parse_duration_string after the characters of
\* input: [total, num, has_unit], and overflow, whether an addition or a
\* multiplication so far left the range of u64
RECURSIVE DurationScan(_)
DurationScan(input) ==
    IF input = <<>>
    THEN [total |-> 0, num |-> None, has_unit |-> FALSE, overflow |-> FALSE]
    ELSE LET v == DurationScan(SubSeq(input, 1, Len(input) - 1))
             ch == input[Len(input)]
             n == UnwrapOr(v.num, 0)
             p == Product(n, UnwrapOr(UnitFactors(ch), <<>>))
         IN  IF ch \in Digits
             THEN [v EXCEPT !.num = Some(WrappingAdd(WrappingMul(n, 10), DigitVal[ch])),
                            !.overflow = \/ v.overflow
                                         \/ MulOverflows(n, 10)
                                         \/ AddOverflows(WrappingMul(n, 10), DigitVal[ch])]
             ELSE IF v.num = None THEN v
             ELSE IF UnitFactors(ch) = None THEN [v EXCEPT !.num = None]
             ELSE [v EXCEPT !.num = None,
                            !.total = WrappingAdd(v.total, p.value),
                            !.has_unit = TRUE,
                            !.overflow = \/ v.overflow
                                         \/ p.overflow
                                         \/ AddOverflows(v.total, p.value)]

\* parse_duration_string: the set of its outcomes [panic, value], the value
\* returned or a panic.  The arithmetic is plain `*` and `+` on u64, which
\* panics on overflow in a build with overflow checks and wraps in a build
\* without; both builds are outcomes.
parse_duration_string(input) ==
    LET v == DurationScan(input)
        total == IF v.num = None THEN v.total ELSE WrappingAdd(v.total, Unwrap(v.num))
        overflow == v.overflow \/ (v.num # None /\ AddOverflows(v.total, Unwrap(v.num)))
        wrapped == [panic |-> FALSE, value |-> IF v.has_unit THEN Some(total) ELSE None]
    IN  IF overflow THEN {[panic |-> TRUE, value |-> None], wrapped} ELSE {wrapped}

(***************************************************************************)
(* The functions of time and duration run alone: an input is drawn, the    *)
(* function is applied, its result is kept beside the input.               *)
(***************************************************************************)
\* one application: `fn` of the text (of the seconds, for the two format
\* functions) with the ban time and the reading of the clock given; out is empty
\* before the function has run and holds its result after
Application(fn, text, bantime_secs, now, seconds) ==
    [fn |-> fn, text |-> text, bantime_secs |-> bantime_secs, now |-> now,
     seconds |-> seconds, out |-> <<>>]

\* numeric tokens around the readings of the clock and at the end of i64, ban
\* times up to the end of u64
ResolveInputs ==
    {Application("parse_time_to_epoch", DecimalText(epoch), bantime_secs, now, 0) :
        epoch \in {0, 1, 2, 60, I64Max - 1, I64Max},
        bantime_secs \in {None} \cup {Some(b) : b \in {0, 1, 60, I64Max - 1, I64Max,
                                                        I64Max + 1, U64Max}},
        now \in {0, 1, 2, 61}}

\* every text of up to three of nine characters, the texts the documentation of
\* the function names, and digit runs at the end of u64
DurationTexts ==
    UNION {[1..n -> {"0", "1", "9", "d", "h", "S", "w", "x", " "}] : n \in 0..3}
    \cup { <<"1", "d", "2", "h", "3", "m", "4", "s">>, <<"9", "0">>, <<"a", "b", "c">>,
           <<"1", "W", "1", "D", "1", "H", "1", "M", "1", "S", "7">>,
           DecimalText(U64Max) \o <<"s">>,
           DecimalText(U64Max) \o <<"0", "s">>,
           DecimalText(U64Max) \o <<"s", "1", "s">>,
           DecimalText(U64Max) \o <<"s", "1">>,
           DecimalText(U64Max \div 86400) \o <<"d">>,
           DecimalText(U64Max \div 86400 + 1) \o <<"d">>,
           DecimalText(U64Max \div 7) \o <<"w">> }

ParseInputs == {Application("parse_duration_string", text, None, 0, 0) : text \in DurationTexts}

\* every mix of no, one and the most days, hours, minutes and seconds, the
\* examples of the documentation, and the end of u64
FormatInputs ==
    {Application("format_duration", <<>>, None, 0, seconds) :
        seconds \in {d * 86400 + h * 3600 + m * 60 + sec :
                        d \in {0, 1, 2}, h \in {0, 1, 23}, m \in {0, 1, 59},
                        sec \in {0, 1, 59}}
                    \cup {45, 93784, U64Max}}

InitTime ==
    /\ state \in ResolveInputs \cup ParseInputs \cup FormatInputs
    /\ pc = "input"
    /\ log = <<>>

\* the function has returned out
Returns(out) ==
    /\ state' = [state EXCEPT !.out = <<out>>]
    /\ pc' = "output"
    /\ UNCHANGED log

ApplyResolve ==
    /\ pc = "input"
    /\ state.fn = "parse_time_to_epoch"
    /\ Returns(parse_time_to_epoch(state.text, state.bantime_secs, state.now))

ApplyParse ==
    /\ pc = "input"
    /\ state.fn = "parse_duration_string"
    /\ \E out \in parse_duration_string(state.text) : Returns(out)

ApplyFormat ==
    /\ pc = "input"
    /\ state.fn = "format_duration"
    /\ Returns([spaced |-> format_duration(state.seconds),
                compact |-> format_duration_compact(state.seconds)])

\* a text that one of the format functions returned is parsed: the application
\* keeps the seconds the text was made of
ParseFormatted ==
    /\ pc = "output"
    /\ state.fn = "format_duration"
    /\ \E text \in {state.out[1].spaced, state.out[1].compact} :
          \E out \in parse_duration_string(text) :
              /\ state' = [state EXCEPT !.fn = "parse_duration_string", !.text = text,
                                        !.out = <<out>>]
              /\ UNCHANGED <<pc, log>>

NextTime == ApplyResolve \/ ApplyParse \/ ApplyFormat \/ ParseFormatted

SpecTime == InitTime /\ [][NextTime]_vars

(***************************************************************************)
(* What a step's log tells: the commands of a fetch start with the plain   *)
(* `status` and run to the end of the log; mutation commands precede them. *)
(***************************************************************************)
IsFetchStart(c) == c.op = "status" /\ c.jail = None

HasFetch(l) == \E i \in 1..Len(l) : IsFetchStart(l[i])

FetchPart(l) ==
    IF HasFetch(l)
    THEN SubSeq(l, CHOOSE i \in 1..Len(l) : IsFetchStart(l[i]), Len(l))
    ELSE <<>>

MutationPart(l) == SubSeq(l, 1, Len(l) - Len(FetchPart(l)))

\* a fetch fails when one of its status commands fails
FetchFailed(l) == \E i \in 1..Len(FetchPart(l)) : FetchPart(l)[i].op = "status" /\ ~FetchPart(l)[i].ok

\* the snapshots a successful fetch can return
Snapshots(tool) == {f.jails : f \in {g \in UNION {tool.fetch[now] : now \in Nows} : g.ok}}

\* a step of a handler (a key, a press, the startup refresh) or of the loop top
HandlerStep == pc \in {"start", "poll"} /\ pc' # pc

TickStep == pc = "tick" /\ pc' = "poll"

(***************************************************************************)
(* C1.  Refresh is all-or-nothing.  A step whose fetch fails leaves the    *)
(* jails and the jail and row selection as they were (the loop top then    *)
(* draws, which clamps the row selection as on every frame) and sets the   *)
(* status to "Refresh failed: " with the message of the failed command; a  *)
(* step whose fetch succeeds stores exactly the jails that fetch returned; *)
(* and every state holds either no jails or the whole result of one fetch. *)
(***************************************************************************)
C1_FailedFetchKeeps ==
    (HasFetch(log') /\ FetchFailed(log')) =>
        /\ state'.jails = state.jails
        /\ state'.jail_state = state.jail_state
        /\ state'.ip_state = IF TickStep THEN render_ips(state).ip_state ELSE state.ip_state
        /\ state'.status =
              Status("Refresh failed: {err}", <<>>, <<>>, None, log'[Len(log')].err)

C1_FetchReplaces ==
    (HasFetch(log') /\ ~FetchFailed(log')) =>
        \E now \in Nows : \E f \in Tool.fetch[now] :
            f.ok /\ f.cmds = FetchPart(log') /\ state'.jails = f.jails

C1_RefreshAllOrNothing ==
    [][(HandlerStep \/ TickStep) =>
          /\ C1_FailedFetchKeeps
          /\ C1_FetchReplaces
          /\ state'.jails \in {<<>>} \cup Snapshots(Tool)]_vars

\* a fetch has just failed while a snapshot with jails was held
C1_Witness ==
    /\ pc = "tick"
    /\ HasFetch(log) /\ FetchFailed(log)
    /\ state.jails # <<>>
    /\ state.status.msg = "Refresh failed: {err}"

(***************************************************************************)
(* Keys and dialogs the claims speak of.                                   *)
(***************************************************************************)
ConfirmKeys == {CharKey("y"), CharKey("Y"), Key("Enter")}

CancelKeys == {CharKey("n"), CharKey("N"), Key("Esc")}

IsModal(m, kind) == m # None /\ Unwrap(m).kind = kind

IsUnbanAll(m, step) == IsModal(m, "UnbanAll") /\ Unwrap(m).step = step

IsUnban(c) == c.op = "set" /\ c.what = "unbanip"

Canceled(st) == [st EXCEPT !.modal = None, !.status = Msg("Action canceled")]

RefreshMsgs == {"Refreshed", "No jails reported by fail2ban-client", "Refresh failed: {err}"}

\* the unbanip commands of a step, in the order they ran
UnbanCmds(l) == SelectSeq(l, IsUnban)

\* the stored ban list of the jail called `name`, as addresses
StoredIps(st, name) ==
    LET found == {i \in 1..Len(st.jails) : st.jails[i].name = name}
    IN  IF found = {} THEN <<>>
        ELSE Ips(st.jails[CHOOSE i \in found : \A j \in found : i <= j].ips)

RECURSIVE Flatten(_)
Flatten(ss) == IF ss = <<>> THEN <<>> ELSE ss[1] \o Flatten(Tail(ss))

Min(a, b) == IF a < b THEN a ELSE b

\* a step of a handler taken with the unban-all dialog at its second step
FinalStep == HandlerStep /\ IsUnbanAll(state.modal, 2)

(***************************************************************************)
(* C2.  The unban-all dialog needs two confirmations.  At step 1 no step   *)
(* of a handler runs a command or changes the jails, and the dialog        *)
(* becomes step 2 of the same jail, closes, or stays; a confirm key at     *)
(* step 1 gives exactly step 2 with the status "Second confirmation        *)
(* required"; step 2 arises only from step 1 or 2 of the same jail and     *)
(* never turns into step 1; a cancel key at either step only closes the    *)
(* dialog; an unbanip command runs under an unban-all dialog only at       *)
(* step 2.                                                                 *)
(***************************************************************************)
C2_FirstStep ==
    (HandlerStep /\ IsUnbanAll(state.modal, 1)) =>
        /\ log' = <<>>
        /\ state'.jails = state.jails
        /\ state'.modal \in {None, state.modal,
                             Some(UnbanAllModal(Unwrap(state.modal).jail, 2))}
        /\ \A key \in ConfirmKeys : \A now \in Nows :
              handle_key(key, state, Tool, now) =
                  {Outcome([state EXCEPT !.modal = Some(UnbanAllModal(Unwrap(state.modal).jail, 2)),
                                         !.status = Msg("Second confirmation required")],
                           <<>>, FALSE)}

C2_StepOrder ==
    /\ IsUnbanAll(state.modal, 2) => ~IsUnbanAll(state'.modal, 1)
    /\ IsUnbanAll(state'.modal, 2) =>
          /\ IsModal(state.modal, "UnbanAll")
          /\ Unwrap(state.modal).jail = Unwrap(state'.modal).jail

C2_Cancel ==
    (pc = "poll" /\ IsModal(state.modal, "UnbanAll")) =>
        \A key \in CancelKeys : \A now \in Nows :
            handle_key(key, state, Tool, now) = {Outcome(Canceled(state), <<>>, FALSE)}

C2_BulkOnlyAtFinal ==
    (HandlerStep /\ IsModal(state.modal, "UnbanAll")
                 /\ \E i \in 1..Len(log') : IsUnban(log'[i])) =>
        IsUnbanAll(state.modal, 2)

C2_TwoStepUnbanAll ==
    [][C2_FirstStep /\ C2_StepOrder /\ C2_Cancel /\ C2_BulkOnlyAtFinal]_vars

\* the first confirmation has just been given
C2_Witness ==
    /\ pc = "tick"
    /\ IsUnbanAll(state.modal, 2)
    /\ state.status = Msg("Second confirmation required")
    /\ log = <<>>
    /\ state.jails # <<>>

(***************************************************************************)
(* C3.  A dialog is never open while the filter is being edited.           *)
(***************************************************************************)
C3_ModalExcludesSearch == ~(state.modal # None /\ state.search_mode)

(***************************************************************************)
(* C4.  Once a frame is drawn, the row selection is None when no jail is   *)
(* selected or the view of the selected jail is empty, and otherwise is an *)
(* index into that view.  (Between a handler and the next frame the        *)
(* selection is not yet clamped; the formula looks only at drawn states.)  *)
(***************************************************************************)
C4_RowSelectionInView ==
    pc = "poll" =>
        LET jail == IF state.jail_state = None THEN None
                    ELSE Get(state.jails, Unwrap(state.jail_state))
            view == IF jail = None THEN <<>> ELSE current_ip_view(state, Unwrap(jail), 0)
        IN  IF view = <<>> THEN state.ip_state = None
            ELSE state.ip_state # None /\ Unwrap(state.ip_state) \in 0..(Len(view) - 1)

(***************************************************************************)
(* C5.  The jail selection is None exactly when there are no jails, and    *)
(* otherwise an index into the jails.                                      *)
(***************************************************************************)
C5_JailSelection ==
    /\ state.jail_state = None <=> state.jails = <<>>
    /\ state.jail_state # None => Unwrap(state.jail_state) \in 0..(Len(state.jails) - 1)

\* the selection has been moved to the second jail
C5_Witness ==
    /\ pc = "tick"
    /\ state.focus = "Jails"
    /\ state.jail_state = Some(1)
    /\ Len(state.jails) = 2

(***************************************************************************)
(* C6.  When a batch of the bulk unban fails after earlier batches went    *)
(* through, the status carries the number of addresses those batches       *)
(* removed.                                                                *)
(***************************************************************************)
C6_FailureStatusHasCount ==
    [][LET U == UnbanCmds(log')
       IN  (FinalStep /\ Len(U) >= 2 /\ ~U[Len(U)].ok) =>
               state'.status.count =
                   Some(Len(Flatten([i \in 1..(Len(U) - 1) |-> U[i].ips])))]_vars

(***************************************************************************)
(* C7.  The batches of the bulk unban run one after another from the front *)
(* of the stored list: the unbanip commands of the step are its first      *)
(* commands, command i carries the i-th run of ChunkSize stored addresses, *)
(* and every command but the last succeeded.  The dialog is closed.  When  *)
(* the last command failed, nothing ran after it (no further batch, no     *)
(* fetch, no ban), the jails are as they were and the status is the        *)
(* failure message with the tool's error.                                  *)
(***************************************************************************)
C7_Batches ==
    LET U == UnbanCmds(log')
        jail == Unwrap(state.modal).jail
        stored == StoredIps(state, jail)
    IN  (FinalStep /\ U # <<>>) =>
            /\ SubSeq(log', 1, Len(U)) = U
            /\ \A i \in 1..Len(U) :
                  /\ U[i].jail = Some(jail)
                  /\ U[i].ips = SubSeq(stored, (i - 1) * ChunkSize + 1,
                                       Min(i * ChunkSize, Len(stored)))
            /\ \A i \in 1..(Len(U) - 1) : U[i].ok
            /\ state'.modal = None
            /\ ~U[Len(U)].ok =>
                  /\ log' = U
                  /\ state'.jails = state.jails
                  /\ state'.status = Status("Unban all failed for {jail}: {err}",
                                            jail, <<>>, None, U[Len(U)].err)

C7_StopAtFirstFailure == [][C7_Batches]_vars

\* the second batch has failed after the first went through
C7_Witness ==
    /\ pc = "tick"
    /\ Len(log) = 2
    /\ IsUnban(log[1]) /\ log[1].ok /\ Len(log[1].ips) = ChunkSize
    /\ IsUnban(log[2]) /\ ~log[2].ok
    /\ state.modal = None
    /\ state.status.msg = "Unban all failed for {jail}: {err}"

(***************************************************************************)
(* C8.  A bulk unban that runs through issues ceil(n / ChunkSize) unbanip  *)
(* commands for the n stored bans of the dialog's jail, every command but  *)
(* the last with exactly ChunkSize addresses and the last with at least    *)
(* one, and the addresses of the commands in a row are the stored list,    *)
(* whatever the filter and the sort mode are.  A confirmation that does    *)
(* not end in the failure status has issued that many commands.            *)
(***************************************************************************)
C8_RunThrough ==
    LET U == UnbanCmds(log')
        stored == StoredIps(state, Unwrap(state.modal).jail)
    IN  (FinalStep /\ U # <<>> /\ U[Len(U)].ok) =>
            /\ Len(U) = (Len(stored) + ChunkSize - 1) \div ChunkSize
            /\ \A i \in 1..(Len(U) - 1) : Len(U[i].ips) = ChunkSize
            /\ Len(U[Len(U)].ips) \in 1..ChunkSize
            /\ Flatten([i \in 1..Len(U) |-> U[i].ips]) = stored

C8_ConfirmIssues ==
    (pc = "poll" /\ IsUnbanAll(state.modal, 2)) =>
        LET stored == StoredIps(state, Unwrap(state.modal).jail)
        IN  \A key \in ConfirmKeys : \A now \in Nows :
                \A o \in handle_key(key, state, BulkTool, now) :
                    o.st.status.msg # "Unban all failed for {jail}: {err}" =>
                        Len(UnbanCmds(o.log)) = (Len(stored) + ChunkSize - 1) \div ChunkSize

C9_SuccessReportsCount ==
    [][LET U == UnbanCmds(log')
           jail == Unwrap(state.modal).jail
       IN  (FinalStep /\ U # <<>> /\ U[Len(U)].ok) =>
               /\ state'.modal = None
               /\ HasFetch(log')
               /\ state'.status = Status("Unbanned {count} IPs from {jail}", jail, <<>>,
                                         Some(Len(StoredIps(state, jail))), "")]_vars

(***************************************************************************)
(* C10.  With the unban dialog of one address open, a step of a handler    *)
(* runs at most one mutation command, `set <jail> unbanip <ip>` with the   *)
(* jail and the address of the dialog.  After the command the dialog is    *)
(* closed; when it succeeded a fetch follows and the status is the one of  *)
(* the refresh; when it failed nothing else runs and the status is "Unban  *)
(* failed for {ip}: {err}".  A confirm key always runs the command.  A     *)
(* cancel key closes the dialog with the status "Action canceled" and runs *)
(* nothing.                                                                *)
(***************************************************************************)
C10_Step ==
    LET modal == Unwrap(state.modal)
        M == MutationPart(log')
    IN  (HandlerStep /\ IsModal(state.modal, "UnbanIp")) =>
            /\ Len(M) <= 1
            /\ M = <<>> => /\ log' = <<>>
                           /\ state' \in {state, Canceled(state)}
            /\ M # <<>> =>
                  /\ M[1].op = "set" /\ M[1].jail = Some(modal.jail)
                  /\ M[1].what = "unbanip" /\ M[1].ips = <<modal.ip>>
                  /\ state'.modal = None
                  /\ M[1].ok => /\ HasFetch(log')
                                /\ state'.status.msg \in RefreshMsgs
                  /\ ~M[1].ok => /\ log' = M
                                 /\ state' = [state EXCEPT
                                                 !.modal = None,
                                                 !.status = Status("Unban failed for {ip}: {err}",
                                                                   <<>>, modal.ip, None,
                                                                   M[1].err)]

C10_Keys ==
    (pc = "poll" /\ IsModal(state.modal, "UnbanIp")) =>
        /\ \A key \in ConfirmKeys : \A now \in Nows :
              \A o \in handle_key(key, state, Tool, now) : MutationPart(o.log) # <<>>
        /\ \A key \in CancelKeys : \A now \in Nows :
              handle_key(key, state, Tool, now) = {Outcome(Canceled(state), <<>>, FALSE)}

C10_ConfirmUnban == [][C10_Step]_vars /\ []C10_Keys

\* the command of the dialog has failed
C10_Witness ==
    /\ pc = "tick"
    /\ Len(log) = 1
    /\ IsUnban(log[1]) /\ ~log[1].ok
    /\ state.modal = None
    /\ state.status.msg = "Unban failed for {ip}: {err}"

(***************************************************************************)
(* C11.  In the ban dialog, enter with an input that is no address after   *)
(* trimming gives exactly one outcome: the dialog stays with the same jail *)
(* and input and the error "Invalid IP address", no command runs, and the  *)
(* rest of the state (jails, status line) is as before.  A step that       *)
(* leaves that error in the dialog ran no command and changed neither the  *)
(* jails nor the status.                                                   *)
(***************************************************************************)
InvalidIp == Some(Msg("Invalid IP address"))

C11_Enter ==
    (pc = "poll" /\ IsModal(state.modal, "BanIp")
                 /\ ~IsIpAddr(trim(Unwrap(state.modal).input))) =>
        \A now \in Nows :
            handle_key(Key("Enter"), state, Tool, now) =
                {Outcome([state EXCEPT !.modal = Some(BanIpModal(Unwrap(state.modal).jail,
                                                                 Unwrap(state.modal).input,
                                                                 InvalidIp))],
                         <<>>, FALSE)}

C11_Step ==
    (HandlerStep /\ IsModal(state'.modal, "BanIp") /\ Unwrap(state'.modal).error = InvalidIp) =>
        /\ IsModal(state.modal, "BanIp")
        /\ Unwrap(state'.modal).jail = Unwrap(state.modal).jail
        /\ Unwrap(state'.modal).input = Unwrap(state.modal).input
        /\ ~IsIpAddr(trim(Unwrap(state.modal).input))
        /\ log' = <<>>
        /\ state'.jails = state.jails
        /\ state'.status = state.status

BanOutcome(st, o) ==
    LET modal == Unwrap(st.modal)
        M == MutationPart(o.log)
    IN  /\ Len(M) = 1
        /\ M[1].op = "set" /\ M[1].jail = Some(modal.jail)
        /\ M[1].what = "banip" /\ M[1].ips = <<trim(modal.input)>>
        /\ M[1].ok => /\ o.st.modal = None
                      /\ HasFetch(o.log)
        /\ ~M[1].ok =>
              /\ o.log = M
              /\ o.st = [st EXCEPT !.modal =
                                       Some(BanIpModal(modal.jail, modal.input,
                                                       Some(Status("Ban failed: {err}", <<>>,
                                                                   <<>>, None, M[1].err))))]

C12_Enter ==
    (pc = "poll" /\ IsModal(state.modal, "BanIp")
                 /\ IsIpAddr(trim(Unwrap(state.modal).input))) =>
        \A now \in Nows :
            /\ \A o \in handle_key(Key("Enter"), state, Tool, now) : BanOutcome(state, o)
            /\ \E o \in handle_key(Key("Enter"), state, Tool, now) : MutationPart(o.log)[1].ok
            /\ \E o \in handle_key(Key("Enter"), state, Tool, now) : ~MutationPart(o.log)[1].ok

C12_Step ==
    (HandlerStep /\ IsModal(state.modal, "BanIp")) =>
        \/ log' = <<>>
        \/ /\ IsIpAddr(trim(Unwrap(state.modal).input))
           /\ BanOutcome(state, [st |-> state', log |-> log'])

C12_ValidInputBans == [][C12_Step]_vars /\ []C12_Enter

\* the ban of an address typed with a leading space has failed
C12_Witness ==
    /\ pc = "tick"
    /\ IsModal(state.modal, "BanIp")
    /\ Unwrap(state.modal).input = <<" ", ":", ":">>
    /\ Unwrap(state.modal).error # None
    /\ Unwrap(Unwrap(state.modal).error).msg = "Ban failed: {err}"
    /\ Len(log) = 1 /\ log[1].what = "banip" /\ log[1].ips = <<<<":", ":">>>>

(***************************************************************************)
(* C13.  A key that opens the unban dialog of one address (the step        *)
(* changes nothing but the dialog) does so only when a row is selected,    *)
(* and the dialog names the selected jail and the address at the selected  *)
(* row of the jail's view under the filter and sort mode of the state.     *)
(***************************************************************************)
C13_UnbanNeedsRow ==
    [][(/\ HandlerStep
        /\ state.modal = None
        /\ IsModal(state'.modal, "UnbanIp")
        /\ state' = [state EXCEPT !.modal = state'.modal]) =>
           /\ state.ip_state # None
           /\ selected_jail(state) # None
           /\ Unwrap(state'.modal).jail = Unwrap(selected_jail(state)).name
           /\ \E now \in Nows :
                 LET view == current_ip_view(state, Unwrap(selected_jail(state)), now)
                 IN  /\ Unwrap(state.ip_state) < Len(view)
                     /\ Unwrap(state'.modal).ip = view[Unwrap(state.ip_state) + 1].ip]_vars

(***************************************************************************)
(* The views of a state: of every jail of the snapshot, in either sort     *)
(* mode, at every reading of the clock.                                    *)
(***************************************************************************)
SortModes == {"Ip", "TimeLeft"}

ViewOf(j, mode, now) == current_ip_view([state EXCEPT !.sort_mode = mode], state.jails[j], now)

\* how often x occurs in the sequence v
Count(v, x) == Cardinality({i \in 1..Len(v) : v[i] = x})

\* the address holds the query as a substring, letters compared without case
Matches(ip, query) == query = <<>> \/ contains(to_lowercase(ip), to_lowercase(query))

\* the view holds exactly the entries of the ban list that match the query, each
\* as often as the ban list holds it
FilteredBy(view, ips, query) ==
    /\ \A i \in 1..Len(view) : Matches(view[i].ip, query)
    /\ \A i \in 1..Len(ips) :
          Count(view, ips[i]) = IF Matches(ips[i].ip, query) THEN Count(ips, ips[i]) ELSE 0

C16_JailsSorted ==
    /\ \A i \in 1..Len(state.jails) : \A k \in (i + 1)..Len(state.jails) :
          \/ Len(state.jails[i].ips) > Len(state.jails[k].ips)
          \/ /\ Len(state.jails[i].ips) = Len(state.jails[k].ips)
             /\ ~StrLess(state.jails[k].name, state.jails[i].name)
    /\ (pc = "tick" /\ HasFetch(log) /\ ~FetchFailed(log) /\ state.jails # <<>>)
          => /\ state.jail_state = Some(0)
             /\ \A k \in 1..Len(state.jails) :
                   Len(Unwrap(selected_jail(state)).ips) >= Len(state.jails[k].ips)

\* a refresh has put nginx, listed second, before sshd with as many entries
C16_Witness ==
    /\ pc = "tick" /\ HasFetch(log) /\ ~FetchFailed(log)
    /\ Len(state.jails) = 2
    /\ state.jails[1].name = nginx
    /\ Len(state.jails[1].ips) = Len(state.jails[2].ips)

\* a refresh has put sshd with more entries before nginx
C16_WitnessCount ==
    /\ pc = "tick" /\ HasFetch(log) /\ ~FetchFailed(log)
    /\ Len(state.jails) = 2
    /\ state.jails[1].name = sshd
    /\ Len(state.jails[1].ips) > Len(state.jails[2].ips)

(***************************************************************************)
(* C17.  In every snapshot no ban list of a jail holds the same address    *)
(* twice, whether the list was parsed from `banip --with-time` or from the *)
(* plain status of the jail.                                               *)
(***************************************************************************)
C17_NoDuplicateIps ==
    \A j \in 1..Len(state.jails) :
        \A i \in 1..Len(state.jails[j].ips) : \A k \in (i + 1)..Len(state.jails[j].ips) :
            state.jails[j].ips[i].ip # state.jails[j].ips[k].ip

(***************************************************************************)
(* C18.  A fetch whose `status` and `status <jail>` commands all succeed   *)
(* succeeds, whatever the four `get` commands of a jail do: the snapshot   *)
(* holds every jail asked; a jail whose bantime or findtime command failed *)
(* has the time value "n/a" without seconds there, a jail whose maxretry   *)
(* command failed has no maxretry, and a jail whose `banip --with-time`    *)
(* command failed has the addresses of its plain status, each once and in  *)
(* the order listed, with no expiry and no raw time text.                  *)
(***************************************************************************)
\* the `get <name> <what>` command of the fetch recorded in the log failed
GetFailed(name, what) ==
    \E i \in 1..Len(FetchPart(log)) :
        /\ FetchPart(log)[i].op = "get" /\ FetchPart(log)[i].jail = Some(name)
        /\ FetchPart(log)[i].what = what /\ ~FetchPart(log)[i].ok

\* the jails whose status the fetch recorded in the log asked for
JailsAsked ==
    {Unwrap(FetchPart(log)[i].jail) :
        i \in {k \in 1..Len(FetchPart(log)) :
                  FetchPart(log)[k].op = "status" /\ FetchPart(log)[k].jail # None}}

C18_GetFailuresTolerated ==
    (pc = "tick" /\ HasFetch(log) /\ ~FetchFailed(log)) =>
        /\ state.status \in {Msg("Refreshed"), Msg("No jails reported by fail2ban-client")}
        /\ {state.jails[j].name : j \in 1..Len(state.jails)} = JailsAsked
        /\ Len(state.jails) = Cardinality(JailsAsked)
        /\ \A j \in 1..Len(state.jails) :
              LET jail == state.jails[j]
              IN  /\ GetFailed(jail.name, "bantime") =>
                        jail.bantime = [raw |-> <<"n", "/", "a">>, seconds |-> None]
                  /\ GetFailed(jail.name, "findtime") =>
                        jail.findtime = [raw |-> <<"n", "/", "a">>, seconds |-> None]
                  /\ GetFailed(jail.name, "maxretry") => jail.maxretry = None
                  /\ GetFailed(jail.name, "banip --with-time") =>
                        \E o \in FetchOutputs :
                            /\ jail.currently_banned = Some(Len(o.listed))
                            /\ jail.ips = [i \in 1..Len(extract_ips(o.listed)) |->
                                              [ip |-> extract_ips(o.listed)[i],
                                               end_epoch |-> None, time_raw |-> None]]

\* a refresh has succeeded although all four get commands of sshd failed, and
\* sshd has the two addresses of its plain status
C18_Witness ==
    /\ pc = "tick" /\ HasFetch(log) /\ ~FetchFailed(log)
    /\ state.status = Msg("Refreshed")
    /\ \A what \in {"bantime", "findtime", "maxretry", "banip --with-time"} :
          GetFailed(sshd, what)
    /\ \E j \in 1..Len(state.jails) :
          state.jails[j].name = sshd /\ Len(state.jails[j].ips) = 2

(***************************************************************************)
(* C19.  While the filter is edited (no dialog open): Esc ends the editing *)
(* with the query as typed and the row selection as it was; Enter ends the *)
(* editing, keeps the query and selects row 0; a character without the     *)
(* control modifier is appended to the query; Backspace removes the last   *)
(* character of the query; none of them runs a command or opens a dialog.  *)
(***************************************************************************)
SearchEditing(st) == st.search_mode /\ st.modal = None

\* the text without its last character
WithoutLast(text) == IF text = <<>> THEN <<>> ELSE SubSeq(text, 1, Len(text) - 1)

\* outcome o of a key ran no command, opened no dialog and asks for no stop
Quiet(o) == o.log = <<>> /\ o.st.modal = None /\ ~o.quit

C19_Keys ==
    (pc = "poll" /\ SearchEditing(state)) =>
        \A now \in Nows :
            /\ \A o \in handle_key(Key("Esc"), state, ViewTool, now) :
                  /\ Quiet(o)
                  /\ ~o.st.search_mode
                  /\ o.st.search_query = state.search_query
                  /\ o.st.ip_state = state.ip_state
            /\ \A o \in handle_key(Key("Enter"), state, ViewTool, now) :
                  /\ Quiet(o)
                  /\ ~o.st.search_mode
                  /\ o.st.search_query = state.search_query
                  /\ o.st.ip_state = Some(0)
            /\ \A c \in ViewTypedChars : \A key \in {CharKey(c), ShiftKey(c)} :
                  \A o \in handle_key(key, state, ViewTool, now) :
                      /\ Quiet(o)
                      /\ o.st.search_query = state.search_query \o <<c>>
            /\ \A o \in handle_key(Key("Backspace"), state, ViewTool, now) :
                  /\ Quiet(o)
                  /\ o.st.search_query = WithoutLast(state.search_query)
            /\ \A key \in {Key("Esc"), Key("Enter"), Key("Backspace"), CharKey("a")} :
                  handle_key(key, state, ViewTool, now) # {}

C19_Step ==
    (HandlerStep /\ SearchEditing(state)) =>
        /\ log' = <<>>
        /\ state'.modal = None
        /\ state'.jails = state.jails
        /\ \/ state' = state
           \/ /\ ~state'.search_mode
              /\ state'.search_query = state.search_query
              /\ state'.ip_state \in {state.ip_state, Some(0)}
           \/ /\ state'.search_mode
              /\ state'.ip_state = state.ip_state
              /\ \/ state'.search_query = WithoutLast(state.search_query)
                 \/ \E c \in ViewTypedChars : state'.search_query = state.search_query \o <<c>>

C19_SearchEditing == [][C19_Step]_vars /\ []C19_Keys

\* Esc has ended the editing of a typed query while no row was selected
C19_Witness ==
    /\ pc = "tick"
    /\ state.status = Msg("Filter canceled")
    /\ ~state.search_mode
    /\ state.search_query # <<>>
    /\ state.ip_state = None

(***************************************************************************)
(* C20.  With no dialog open, a press of the left button inside the bans   *)
(* panel, on row r of its inner area: when r is smaller than the length of *)
(* the view of the selected jail, the focus becomes the bans panel, row r  *)
(* is selected and the dialog to unban opens for the selected jail and the *)
(* address of entry r of the view; when r is the length of the view or     *)
(* more, the state does not change.  Neither runs a command.               *)
(***************************************************************************)
\* the presses inside the inner area of the bans panel as last drawn
PressesOnBans ==
    IF state.ip_rect = None THEN {}
    ELSE {c \in Clicks :
            /\ c.x \in (Unwrap(state.ip_rect).x + 1)
                         ..(Unwrap(state.ip_rect).x + Unwrap(state.ip_rect).width - 2)
            /\ c.y \in (Unwrap(state.ip_rect).y + 1)
                         ..(Unwrap(state.ip_rect).y + Unwrap(state.ip_rect).height - 2)}

\* the length of the view of the selected jail, 0 when no jail is selected
ViewLen(now) ==
    IF selected_jail(state) = None THEN 0
    ELSE Len(current_ip_view(state, Unwrap(selected_jail(state)), now))

C20_PressOnBanRow ==
    (pc = "poll" /\ state.modal = None) =>
        \A c \in PressesOnBans : \A now \in Nows :
            LET r == c.y - (Unwrap(state.ip_rect).y + 1)
            IN  handle_mouse(c.x, c.y, state, Tool, now) =
                    IF r < ViewLen(now)
                    THEN {Outcome([state EXCEPT
                                      !.focus = "Ips",
                                      !.ip_state = Some(r),
                                      !.modal = Some(UnbanIpModal(
                                          Unwrap(selected_jail(state)).name,
                                          current_ip_view(state, Unwrap(selected_jail(state)),
                                                          now)[r + 1].ip))],
                                  <<>>, FALSE)}
                    ELSE {Outcome(state, <<>>, FALSE)}

\* a press on the second row has opened the dialog while the filter was edited,
\* which no key does
C20_Witness ==
    /\ pc = "tick"
    /\ IsModal(state.modal, "UnbanIp")
    /\ state.search_mode
    /\ state.focus = "Ips"
    /\ state.ip_state = Some(1)
    /\ log = <<>>

(***************************************************************************)
(* C21.  The loop is asked to stop only by the quit key while no dialog is *)
(* open and the filter is not edited, or by Ctrl+C in any state.  No other *)
(* key, no press of the mouse and no failing command stops it; the quit    *)
(* key in a dialog or while the filter is edited does not.                 *)
(***************************************************************************)
QuitKeys == {CharKey("q"), CharKey("Q")}

Browsing(st) == st.modal = None /\ ~st.search_mode

C21_Events ==
    pc = "poll" =>
        \A now \in Nows :
            /\ \A key \in Keys \cup QuitKeys \cup {CtrlKey("c"), CtrlKey("a")} :
                  \A o \in handle_key(key, state, Tool, now) :
                      o.quit <=> \/ key = CtrlKey("c")
                                 \/ key \in QuitKeys /\ Browsing(state)
            /\ \A c \in Clicks : \A o \in handle_mouse(c.x, c.y, state, Tool, now) : ~o.quit

\* the loop stops from the poll only, by a handler that ran no command and
\* changed nothing
C21_Step == (pc # "done" /\ pc' = "done") => (pc = "poll" /\ log' = <<>> /\ state' = state)

C21_WitnessBrowsing == pc = "done" /\ Browsing(state)

(***************************************************************************)
(* C22.  The top of the loop fetches, before it draws, exactly when        *)
(* autorefresh is on and the time since the last refresh is at least the   *)
(* refresh interval, and then once; with autorefresh off, as it is at the  *)
(* start, the top of the loop never fetches; a successful refresh, from    *)
(* the key, from the top of the loop or after a command, restarts the time *)
(* since the last refresh.                                                 *)
(***************************************************************************)
\* the number of fetches in a log
Fetches(l) == Cardinality({i \in 1..Len(l) : IsFetchStart(l[i])})

C22_Step ==
    /\ TickStep =>
          /\ HasFetch(log') <=> (state.autorefresh /\ state.last_refresh >= RefreshInterval)
          /\ Fetches(log') <= 1
          /\ ~state.autorefresh => log' = <<>>
          /\ MutationPart(log') = <<>>
          /\ state' = draw_ui(state')
    /\ (pc' # pc /\ HasFetch(log') /\ ~FetchFailed(log')) => state'.last_refresh = 0
    /\ (pc' # pc /\ (~HasFetch(log') \/ FetchFailed(log'))) =>
          state'.last_refresh = state.last_refresh

C22_Start == pc = "start" => ~state.autorefresh

C22_TimedRefresh == [][C22_Step]_vars /\ []C22_Start

\* the top of the loop has refreshed with success
C22_Witness ==
    /\ pc = "poll"
    /\ HasFetch(log) /\ ~FetchFailed(log)
    /\ state.autorefresh
    /\ state.last_refresh = 0

\* the interval has passed with autorefresh off
C22_WitnessOff == pc = "tick" /\ ~state.autorefresh /\ state.last_refresh >= RefreshInterval

(***************************************************************************)
(* C23.  The stored snapshot (the jails, the order of each ban list, every *)
(* field of every entry) changes only in a step that made a successful     *)
(* fetch: changing the sort mode, editing, committing, cancelling or       *)
(* clearing the filter, moving the selection, changing the focus, toggling *)
(* autorefresh, opening or cancelling a dialog leave it as it is.          *)
(***************************************************************************)
C23_SnapshotFrame ==
    [][state'.jails # state.jails => (pc' # pc /\ HasFetch(log') /\ ~FetchFailed(log'))]_vars

\* the sort mode has been changed over a jail whose view is not in the stored
\* order
C23_Witness ==
    /\ pc = "tick"
    /\ state.status = Msg("Sort mode updated")
    /\ log = <<>>
    /\ \E j \in 1..Len(state.jails) :
          current_ip_view(state, state.jails[j], 0) # state.jails[j].ips

\* the filter has been committed with a query that hides an entry
C23_WitnessFilter ==
    /\ pc = "tick"
    /\ state.status = Msg("Filter applied")
    /\ \E j \in 1..Len(state.jails) :
          Len(filtered_ips(state, state.jails[j])) < Len(state.jails[j].ips)

(***************************************************************************)
(* C24.  The expiry resolved from a token of digits only: the epoch of the *)
(* token when that is the reading of the clock or later, whatever the ban  *)
(* time; the epoch plus the ban time when the epoch is before the clock    *)
(* and the ban time is known; the epoch when it is before the clock and    *)
(* the ban time is unknown.                                                *)
(***************************************************************************)
\* parse_time_to_epoch has run on a token of digits that is an epoch of i64
ResolvedNumeric ==
    /\ pc = "output"
    /\ state.fn = "parse_time_to_epoch"
    /\ state.text # <<>> /\ AllDigits(state.text)
    /\ DecimalValue(state.text) <= I64Max

C24_ResolveNumeric ==
    ResolvedNumeric =>
        LET epoch == DecimalValue(state.text)
            end == state.out[1]
        IN  /\ epoch >= state.now => end = Some(epoch)
            /\ (epoch < state.now /\ state.bantime_secs = None) => end = Some(epoch)
            /\ (epoch < state.now /\ state.bantime_secs # None) =>
                  /\ end # None
                  /\ Unwrap(end) - epoch = Unwrap(state.bantime_secs)

(***************************************************************************)
(* C25.  parse_duration_string returns 90 for the text "90" (digits and no *)
(* unit letter), 93784 for "1d2h3m4s" and nothing for "abc".               *)
(***************************************************************************)
\* parse_duration_string has run on `text`
Parsed(text) == pc = "output" /\ state.fn = "parse_duration_string" /\ state.text = text

C25_Examples ==
    /\ Parsed(<<"9", "0">>) => state.out[1] = [panic |-> FALSE, value |-> Some(90)]
    /\ Parsed(<<"1", "d", "2", "h", "3", "m", "4", "s">>) =>
          state.out[1] = [panic |-> FALSE, value |-> Some(93784)]
    /\ Parsed(<<"a", "b", "c">>) => state.out[1] = [panic |-> FALSE, value |-> None]

(***************************************************************************)
(* C26.  parse_duration_string returns the sum, over the groups of a digit *)
(* run and the unit letter right behind it, of the number times the        *)
(* seconds of the unit (w 604800, d 86400, h 3600, m 60, s 1, in either    *)
(* case), plus the digit run that ends the text if there is one; it        *)
(* returns nothing exactly when the text has no such group.                *)
(***************************************************************************)
UnitSeconds(c) ==
    CASE c \in {"w", "W"} -> 604800
      [] c \in {"d", "D"} -> 86400
      [] c \in {"h", "H"} -> 3600
      [] c \in {"m", "M"} -> 60
      [] c \in {"s", "S"} -> 1

\* the whole digit run of text t that ends at position e
DigitRun(t, e) ==
    SubSeq(t, CHOOSE k \in 1..e : /\ \A j \in k..e : t[j] \in Digits
                                  /\ k = 1 \/ t[k - 1] \notin Digits,
           e)

\* the positions of the unit letters right behind a digit, in order
UnitsAt(t) ==
    SelectSeq([i \in 1..Len(t) |-> i],
              LAMBDA i : /\ i > 1
                         /\ t[i] \in {"w", "W", "d", "D", "h", "H", "m", "M", "s", "S"}
                         /\ t[i - 1] \in Digits)

\* the terms of the sum: a digit run and the seconds one of it counts
Terms(t) ==
    [k \in 1..Len(UnitsAt(t)) |->
        [run |-> DigitRun(t, UnitsAt(t)[k] - 1), seconds |-> UnitSeconds(t[UnitsAt(t)[k]])]]
    \o (IF t # <<>> /\ t[Len(t)] \in Digits
        THEN <<[run |-> DigitRun(t, Len(t)), seconds |-> 1]>>
        ELSE <<>>)

\* the sum of the terms when it and every term of it is a number of u64, None
\* when not
RECURSIVE SumOf(_)
SumOf(terms) ==
    IF terms = <<>> THEN Some(0)
    ELSE LET rest == SumOf(Tail(terms))
             n == ParseBounded(terms[1].run, U64Max)
         IN  IF rest = None \/ n = None THEN None
             ELSE IF Unwrap(n) > U64Max \div terms[1].seconds THEN None
             ELSE IF Unwrap(n) * terms[1].seconds > U64Max - Unwrap(rest) THEN None
             ELSE Some(Unwrap(n) * terms[1].seconds + Unwrap(rest))

C26_SumOfGroups ==
    (pc = "output" /\ state.fn = "parse_duration_string") =>
        /\ ~state.out[1].panic
        /\ IF UnitsAt(state.text) = <<>> THEN state.out[1].value = None
           ELSE /\ SumOf(Terms(state.text)) # None
                /\ state.out[1].value = SumOf(Terms(state.text))

(***************************************************************************)
(* C27.  format_duration returns one token for every unit among days,      *)
(* hours and minutes that is not zero, in this order, with one space       *)
(* between two tokens; the token of the seconds only when days, hours and  *)
(* minutes are all zero; "0s" for 0; never the empty text.                 *)
(* format_duration_compact returns the same tokens without the spaces.     *)
(***************************************************************************)
\* the tokens of a duration, as texts
DurationTokens(seconds) ==
    LET Token(n, unit) == IF n > 0 THEN <<DecimalText(n) \o <<unit>>>> ELSE <<>>
        large == Token(seconds \div 86400, "d")
                 \o Token((seconds \div 3600) % 24, "h")
                 \o Token((seconds \div 60) % 60, "m")
    IN  IF seconds = 0 THEN << <<"0", "s">> >>
        ELSE IF large = <<>> THEN Token(seconds % 60, "s")
        ELSE large

Formatted == pc = "output" /\ state.fn = "format_duration"

C27_FormatDuration ==
    Formatted =>
        /\ state.out[1].spaced = Join(DurationTokens(state.seconds))
        /\ state.out[1].spaced # <<>>
        /\ state.out[1].compact = SelectSeq(state.out[1].spaced, LAMBDA c : c # " ")
        /\ \A i \in 1..(Len(state.out[1].spaced) - 1) :
              ~(state.out[1].spaced[i] = " " /\ state.out[1].spaced[i + 1] = " ")

\* 93784 seconds have been formatted as "1d 2h 3m", without their 4 seconds
C27_Witness ==
    /\ Formatted
    /\ state.seconds = 93784
    /\ state.out[1].spaced = <<"1", "d", " ", "2", "h", " ", "3", "m">>
    /\ state.out[1].compact = <<"1", "d", "2", "h", "3", "m">>

(***************************************************************************)
(* C28.  A fetch runs `status` once, first; then for every jail of the     *)
(* answer, in the order of the answer, `status <jail>`, `get <jail>        *)
(* bantime`, `get <jail> findtime`, `get <jail> maxretry`, `get <jail>     *)
(* banip --with-time`, each once, all five of a jail before the first of   *)
(* the next.  A fetch of n jails whose status commands all succeed runs    *)
(* 1 + 5n commands, none of them a `set`.                                  *)
(***************************************************************************)
\* the jails in the order every daemon of these checks lists them
Discovered == <<sshd, nginx>>

\* the commands for one jail, by position
PerJail ==
    << [op |-> "status", what |-> ""],
       [op |-> "get", what |-> "bantime"],
       [op |-> "get", what |-> "findtime"],
       [op |-> "get", what |-> "maxretry"],
       [op |-> "get", what |-> "banip --with-time"] >>

C28_FetchCommands ==
    (pc \in {"tick", "poll"} /\ HasFetch(log)) =>
        LET f == FetchPart(log)
        IN  /\ Fetches(f) = 1
            /\ IsFetchStart(f[1])
            /\ \A i \in 2..Len(f) :
                  /\ (i - 2) \div 5 < Len(Discovered)
                  /\ f[i].jail = Some(Discovered[((i - 2) \div 5) + 1])
                  /\ f[i].op = PerJail[((i - 2) % 5) + 1].op
                  /\ f[i].what = PerJail[((i - 2) % 5) + 1].what
                  /\ f[i].ips = <<>>
            /\ ~FetchFailed(log) =>
                  /\ Len(f) = 1 + 5 * Len(state.jails)
                  /\ {state.jails[j].name : j \in 1..Len(state.jails)}
                        = {Discovered[k] : k \in 1..((Len(f) - 1) \div 5)}
            /\ FetchFailed(log) => ~f[Len(f)].ok /\ f[Len(f)].op = "status"

\* a fetch of two jails has run its eleven commands, and the snapshot has the
\* jails in the other order than the daemon listed them
C28_Witness ==
    /\ pc = "tick" /\ HasFetch(log) /\ ~FetchFailed(log)
    /\ Len(FetchPart(log)) = 11
    /\ Len(state.jails) = 2
    /\ state.jails[1].name = nginx

(***************************************************************************)
(* C29.  A command that fails (the unban of one address, a batch of the    *)
(* bulk unban, a ban) is followed by no fetch and is not run again: the    *)
(* step that ran it ends with it, and the snapshot stays the one held      *)
(* before, also when earlier batches of a bulk unban succeeded; the top of *)
(* the loop runs no such command.                                          *)
(***************************************************************************)
\* a command of the log failed that is not a command of a fetch
MutationFailed(l) == \E i \in 1..Len(MutationPart(l)) : ~MutationPart(l)[i].ok

C29_Step ==
    /\ (HandlerStep /\ MutationFailed(log')) =>
          /\ ~HasFetch(log')
          /\ state'.jails = state.jails
          /\ \A i \in 1..Len(log') : log'[i].ok <=> i < Len(log')
          /\ \A i \in 1..Len(log') : \A k \in (i + 1)..Len(log') : log'[i] # log'[k]
    /\ TickStep => MutationPart(log') = <<>>

C29_WitnessOne ==
    /\ pc = "tick"
    /\ Len(log) = 1 /\ ~log[1].ok /\ log[1].op = "set" /\ Len(log[1].ips) = 1
    /\ state.jails # <<>>

(***************************************************************************)
(* C30.  While a dialog is open, a key changes none of focus, jail         *)
(* selection, row selection, sort mode, filter text, filter editing and    *)
(* autorefresh, except for the selections reset by the refresh that        *)
(* follows a confirmed command that succeeded (the bulk unban of a jail    *)
(* without bans succeeds without a command).  The keys of browsing         *)
(* (quit, refresh, sort, tab, filter, clear filter, up, down, autorefresh) *)
(* do nothing of what they do without a dialog, and a press of the mouse   *)
(* outside the two buttons changes no state.                               *)
(***************************************************************************)
\* the part of the state a dialog protects
Behind(st) ==
    <<st.focus, st.jail_state, st.ip_state, st.sort_mode, st.search_query, st.search_mode,
      st.autorefresh>>

BrowseKeys ==
    { CharKey("q"), CharKey("r"), CharKey("s"), Key("Tab"), CharKey("/"), CharKey("x"),
      Key("Up"), Key("Down"), CharKey("t") }

\* the presses outside both buttons of the dialog as last drawn
PressesOffButtons ==
    {c \in Clicks :
        /\ state.modal_yes_rect = None \/ ~point_in_rect(c.x, c.y, Unwrap(state.modal_yes_rect))
        /\ state.modal_no_rect = None \/ ~point_in_rect(c.x, c.y, Unwrap(state.modal_no_rect))}

C30_Events ==
    (pc = "poll" /\ state.modal # None) =>
        \A now \in Nows :
            /\ \A key \in BrowseKeys : \A o \in handle_key(key, state, Tool, now) :
                  /\ Behind(o.st) = Behind(state)
                  /\ o.st.jails = state.jails
                  /\ o.st.modal # None
                  /\ o.log = <<>>
                  /\ ~o.quit
            /\ \A c \in PressesOffButtons :
                  handle_mouse(c.x, c.y, state, Tool, now) = {Outcome(state, <<>>, FALSE)}

C30_Step ==
    (HandlerStep /\ state.modal # None /\ Behind(state') # Behind(state)) =>
        /\ \/ MutationPart(log') # <<>>
           \/ /\ IsUnbanAll(state.modal, 2)
              /\ \E j \in 1..Len(state.jails) :
                    /\ state.jails[j].name = Unwrap(state.modal).jail
                    /\ state.jails[j].ips = <<>>
        /\ ~MutationFailed(log')
        /\ HasFetch(log') /\ ~FetchFailed(log')
        /\ state'.modal = None
        /\ state'.jails # <<>> => (state'.jail_state = Some(0) /\ state'.ip_state = Some(0))
        /\ state'.jails = <<>> => (state'.jail_state = None /\ state'.ip_state = None)
        /\ <<state'.focus, state'.sort_mode, state'.search_query, state'.search_mode,
             state'.autorefresh>>
              = <<state.focus, state.sort_mode, state.search_query, state.search_mode,
                  state.autorefresh>>

C30_DialogFrame == [][C30_Step]_vars /\ []C30_Events

\* a dialog is open over the second row of the bans panel with the focus there,
\* where Tab, Up and Down would act without the dialog
C30_Witness ==
    /\ pc = "poll"
    /\ state.modal # None
    /\ state.focus = "Ips"
    /\ state.ip_state = Some(1)
    /\ state.modal_yes_rect # None

\* a confirmed command has succeeded and its refresh has reset the selection
C30_WitnessRefresh ==
    /\ pc = "tick"
    /\ MutationPart(log) # <<>> /\ HasFetch(log) /\ ~FetchFailed(log)
    /\ state.ip_state = Some(0)
    /\ state.focus = "Ips"

(***************************************************************************)
(* C31.  The target of an open confirmation dialog is fixed when it opens. *)
(* While an unban dialog stays open no step changes its jail or its        *)
(* address, whatever the loop top fetches meanwhile; a step of a handler   *)
(* that runs a command under it runs exactly one unbanip, for the jail and *)
(* the address of the dialog.  While an unban-all dialog stays open its    *)
(* jail stays; a confirmation at its second step runs unbanip for the      *)
(* jail of the dialog over the ban list stored under that name when the    *)
(* key is pressed (a leading part of it when a command fails), and when no *)
(* stored jail has that name it runs no command, closes the dialog and     *)
(* sets the status "Unban all failed for <jail>: jail not found".          *)
(***************************************************************************)
C31_TargetStays ==
    /\ (IsModal(state.modal, "UnbanIp") /\ state'.modal # None) => state'.modal = state.modal
    /\ (IsModal(state.modal, "UnbanAll") /\ state'.modal # None) =>
          /\ IsModal(state'.modal, "UnbanAll")
          /\ Unwrap(state'.modal).jail = Unwrap(state.modal).jail

C31_UnbanTarget ==
    (HandlerStep /\ IsModal(state.modal, "UnbanIp") /\ log' # <<>>) =>
        /\ Len(MutationPart(log')) = 1
        /\ IsUnban(log'[1])
        /\ log'[1].jail = Some(Unwrap(state.modal).jail)
        /\ log'[1].ips = <<Unwrap(state.modal).ip>>
        /\ state'.modal = None

C31_UnbanAllTarget ==
    (FinalStep /\ state'.modal = None /\ state'.status.msg # "Action canceled") =>
        LET jail == Unwrap(state.modal).jail
            present == \E i \in 1..Len(state.jails) : state.jails[i].name = jail
            sent == Flatten([i \in 1..Len(UnbanCmds(log')) |-> UnbanCmds(log')[i].ips])
        IN  /\ \A i \in 1..Len(MutationPart(log')) :
                  IsUnban(log'[i]) /\ log'[i].jail = Some(jail)
            /\ Len(sent) <= Len(StoredIps(state, jail))
            /\ sent = SubSeq(StoredIps(state, jail), 1, Len(sent))
            /\ ~MutationFailed(log') => sent = StoredIps(state, jail)
            /\ ~present =>
                  /\ log' = <<>>
                  /\ state'.status = Status("Unban all failed for {jail}: {err}",
                                            jail, <<>>, None, "jail not found")

C31_TargetFixedAtOpen ==
    [][C31_TargetStays /\ C31_UnbanTarget /\ C31_UnbanAllTarget]_vars

\* an unban was confirmed for an address that the snapshot, replaced while the
\* dialog was open, no longer holds under that jail
C31_Witness ==
    /\ pc = "tick"
    /\ Len(log) = 1 /\ IsUnban(log[1])
    /\ state.status.msg = "Unban failed for {ip}: {err}"
    /\ state.jails # <<>>
    /\ \A i \in 1..Len(StoredIps(state, Unwrap(log[1].jail))) :
          StoredIps(state, Unwrap(log[1].jail))[i] # log[1].ips[1]

\* an unban-all was confirmed after the snapshot had lost the jail of the dialog
C31_WitnessGone ==
    /\ pc = "tick"
    /\ log = <<>>
    /\ state.modal = None
    /\ state.status.msg = "Unban all failed for {jail}: {err}"
    /\ state.status.err = "jail not found"

\* the loop top has replaced the snapshot under an unban-all dialog waiting for
\* its second confirmation
C31_WitnessReplaced ==
    /\ pc = "poll"
    /\ IsUnbanAll(state.modal, 2)
    /\ state.status.msg = "Refreshed"
    /\ StoredIps(state, Unwrap(state.modal).jail) # <<>>

(***************************************************************************)
(* C32.  A failed refresh does not restart the interval.  A step whose     *)
(* fetch fails leaves last_refresh, the toggle, the jails and the jail     *)
(* selection as they were, and the row selection as the frame drawn at the *)
(* loop top leaves it without any fetch; with auto-refresh on and the      *)
(* interval elapsed the loop top fetches, so after a failed attempt the    *)
(* next loop top fetches again; and an elapsed interval ends only by a     *)
(* step whose fetch succeeds.                                              *)
(***************************************************************************)
Due(st) == st.autorefresh /\ st.last_refresh >= RefreshInterval

C32_FailedAttempt ==
    ((HandlerStep \/ TickStep) /\ HasFetch(log') /\ FetchFailed(log')) =>
        /\ state'.last_refresh = state.last_refresh
        /\ state'.autorefresh = state.autorefresh
        /\ state'.jails = state.jails
        /\ state'.jail_state = state.jail_state
        /\ TickStep =>
              state' = [draw_ui(state) EXCEPT
                           !.status = Status("Refresh failed: {err}", <<>>, <<>>, None,
                                             log'[Len(log')].err)]
        /\ ~TickStep => state'.ip_state = state.ip_state

C32_Step ==
    /\ C32_FailedAttempt
    /\ (TickStep /\ Due(state)) => HasFetch(log')
    /\ (TickStep /\ ~Due(state)) => log' = <<>>
    /\ (state.last_refresh >= RefreshInterval /\ state'.last_refresh < RefreshInterval) =>
          (HasFetch(log') /\ ~FetchFailed(log'))

C32_FailedRefreshRetried == [][C32_Step]_vars

\* the timed fetch has just failed with the second jail selected: the selection
\* is kept and the next loop top is due to fetch again
C32_Witness ==
    /\ pc = "poll"
    /\ HasFetch(log) /\ FetchFailed(log)
    /\ Due(state)
    /\ state.jail_state = Some(1)
    /\ state.status.msg = "Refresh failed: {err}"

(***************************************************************************)
(* C33.  A failed `status <jail>` ends the whole fetch.  In a step whose   *)
(* fetch meets a failing `status <jail>`, after the plain `status` and the *)
(* commands of the earlier jails have run and their status commands have   *)
(* succeeded, that command is the last of the fetch: no other command      *)
(* names that jail and none names a later jail.  The step keeps the jails  *)
(* and the jail selection it had and sets the status "Refresh failed: "    *)
(* with the message of that command.                                       *)
(***************************************************************************)
JailStatusFailed(c) == c.op = "status" /\ c.jail # None /\ ~c.ok

C33_Step ==
    LET f == FetchPart(log')
        failed == {i \in 1..Len(f) : JailStatusFailed(f[i])}
    IN  ((HandlerStep \/ TickStep) /\ failed # {}) =>
            LET k == CHOOSE i \in failed : \A j \in failed : i <= j
                nth == ((k - 2) \div 5) + 1
            IN  /\ k = Len(f)
                /\ (k - 2) % 5 = 0
                /\ f[k].jail = Some(Discovered[nth])
                /\ \A i \in 1..(k - 1) : f[i].op = "status" => f[i].ok
                /\ \A i \in 1..(k - 1) :
                      \A later \in nth..Len(Discovered) : f[i].jail # Some(Discovered[later])
                /\ state'.jails = state.jails
                /\ state'.jail_state = state.jail_state
                /\ state'.status =
                      Status("Refresh failed: {err}", <<>>, <<>>, None, f[k].err)

C33_JailStatusFailureAborts == [][C33_Step]_vars

\* the status of the second jail has just failed, after the six commands before
\* it, while a snapshot of two jails was held
C33_Witness ==
    /\ pc \in {"tick", "poll"}
    /\ Len(FetchPart(log)) = 7
    /\ JailStatusFailed(log[Len(log)])
    /\ log[Len(log)].jail = Some(nginx)
    /\ Len(state.jails) = 2
    /\ state.status.msg = "Refresh failed: {err}"

\* the status of the first jail has just failed: the fetch ran two commands
C33_WitnessFirst ==
    /\ pc \in {"tick", "poll"}
    /\ Len(FetchPart(log)) = 2
    /\ JailStatusFailed(log[Len(log)])
    /\ log[Len(log)].jail = Some(sshd)
    /\ Len(state.jails) = 2

(***************************************************************************)
(* C34.  What a ban command carries.  Every `set <jail> banip <ip>` a step *)
(* runs is the first command of a step of a handler taken with the ban     *)
(* dialog open; its ip is the dialog's input without the surrounding       *)
(* whitespace and is an IPv4 or IPv6 address; its jail is the jail of the  *)
(* dialog.  The jail of the dialog is the name of the jail selected in the *)
(* step that opened it and stays while the dialog is open, whatever is     *)
(* selected later.  With no jail selected, no dialog open and the filter   *)
(* not being edited, the ban key changes nothing.                          *)
(***************************************************************************)
IsBan(c) == c.op = "set" /\ c.what = "banip"

C34_BanCarries ==
    \A i \in 1..Len(log') :
        (IsBan(log'[i]) /\ pc' # pc) =>
            /\ HandlerStep
            /\ i = 1
            /\ IsModal(state.modal, "BanIp")
            /\ log'[i].ips = <<trim(Unwrap(state.modal).input)>>
            /\ IsIpAddr(log'[i].ips[1])
            /\ log'[i].jail = Some(Unwrap(state.modal).jail)

C34_DialogJail ==
    /\ (IsModal(state.modal, "BanIp") /\ IsModal(state'.modal, "BanIp")) =>
          Unwrap(state'.modal).jail = Unwrap(state.modal).jail
    /\ (~IsModal(state.modal, "BanIp") /\ IsModal(state'.modal, "BanIp")) =>
          /\ state.modal = None
          /\ selected_jail(state) # None
          /\ state'.modal = Some(BanIpModal(Unwrap(selected_jail(state)).name, <<>>, None))

C34_NoJailNoDialog ==
    (pc = "poll" /\ Browsing(state) /\ selected_jail(state) = None) =>
        \A key \in {CharKey("b"), CharKey("B")} : \A now \in Nows :
            handle_key(key, state, Tool, now) = {Outcome(state, <<>>, FALSE)}

C34_BanCommand == [][C34_BanCarries /\ C34_DialogJail]_vars /\ []C34_NoJailNoDialog

\* a ban has just run (and failed) for the jail of the dialog, an input with a
\* leading space, while another jail is the selected one
C34_Witness ==
    /\ pc = "tick"
    /\ Len(log) = 1 /\ IsBan(log[1])
    /\ IsModal(state.modal, "BanIp")
    /\ log[1].jail = Some(Unwrap(state.modal).jail)
    /\ selected_jail(state) # None
    /\ Unwrap(selected_jail(state)).name # Unwrap(state.modal).jail
    /\ Unwrap(state.modal).input # log[1].ips[1]

\* the user is at the keyboard with no jail selected and no dialog open
C34_WitnessNoJail ==
    /\ pc = "poll"
    /\ Browsing(state)
    /\ selected_jail(state) = None
    /\ state.status.msg = "No jails reported by fail2ban-client"

(***************************************************************************)
(* C35.  Round trip of the duration texts.  parse_duration_string of the   *)
(* text format_duration returned for s seconds, and of the text            *)
(* format_duration_compact returned, returns s when s < 60 and s less its  *)
(* remainder by 60 when s >= 60; it returns a value and does not overflow. *)
(***************************************************************************)
\* a text formatted from state.seconds has been parsed
RoundTrip ==
    /\ pc = "output"
    /\ state.fn = "parse_duration_string"
    /\ state.text \in {format_duration(state.seconds), format_duration_compact(state.seconds)}

C35_RoundTrip ==
    RoundTrip =>
        /\ ~state.out[1].panic
        /\ state.out[1].value =
              Some(IF state.seconds < 60 THEN state.seconds
                   ELSE state.seconds - (state.seconds % 60))
        /\ parse_duration_string(state.text) = {state.out[1]}

\* "1d 2h 3m", formatted from 93784 seconds, has been parsed as 93780
C35_Witness ==
    /\ RoundTrip
    /\ state.seconds = 93784
    /\ state.text = <<"1", "d", " ", "2", "h", " ", "3", "m">>
    /\ state.out[1].value = Some(93780)

\* "45s", formatted from 45 seconds, has been parsed as 45
C35_WitnessSeconds ==
    /\ RoundTrip
    /\ state.seconds = 45
    /\ state.out[1].value = Some(45)

\* the compact text of the largest duration has been parsed
C35_WitnessLargest ==
    /\ RoundTrip
    /\ state.seconds = U64Max
    /\ \A i \in 1..Len(state.text) : state.text[i] # " "

====
